---- MODULE Spec2Model ----
(***************************************************************************)
(* Model of the in-memory coordination core of the signaling server:      *)
(* the connection registry (users), the live room table (rooms), the chat *)
(* subscription table (roomChats), the active-call table (activeCalls),   *)
(* the websocket open / message / close handlers of index.ts and the room *)
(* operations of src/rooms.ts.                                             *)
(*                                                                         *)
(* JavaScript runs one handler segment at a time: the code between two    *)
(* awaits that wait for I/O is one atomic action.  A handler suspended on *)
(* I/O is a record in `tasks`; resuming it is a separate action, so every *)
(* interleaving of suspended handlers is explored.  An await on a promise *)
(* that performs no I/O resumes in the same microtask drain and is part   *)
(* of the running segment.  Consecutive awaits between which the handler  *)
(* touches none of the modelled state are one suspension.  A persistence  *)
(* call takes effect when its await resumes.                               *)
(***************************************************************************)
EXTENDS Integers, FiniteSets, Sequences, TLC

VARIABLES
  connState,    \* per socket: "new" (upgraded, open not yet run), "open",
                \* "closing" (closed by the server, close handler not yet run), "closed"
  lastPongAt,   \* ws.data.lastPongAt of each socket against the clock: "fresh"
                \* (within PRESENCE_TTL_MS of now) or "expired"
  roomIdOf,     \* ws.data.roomId of each socket (None = undefined)
  chatRoomsOf,  \* ws.data.chatRooms of each socket
  users,        \* state.users: userId -> set of sockets
  rooms,        \* state.rooms: roomId -> set of userIds
  roomChats,    \* state.roomChats: roomId -> set of userIds
  activeCalls,  \* state.activeCalls: userId -> peer userId
  dbRooms,      \* the persisted "rooms" table, one record per room id
  tasks,        \* suspended handlers and pending updateUserStatus calls
  msgLeft,      \* inbound messages the environment may still send
  roomMessagesByRoom, \* state.roomMessagesByRoom: roomId -> cached transcript
  dbMessages,   \* the persisted room_messages table: the rows in insertion order
  lookupFailed, \* history: some room lookup (rooms.ts 70-73) has returned an error
  offered,      \* history: the pairs <<from, to>> of the offers relayed so far
  announced,    \* history: per user, the last of user-connected / user-disconnected broadcast about them
  sent,         \* the messages delivered by the last handler segment
  last          \* which handler segment ran last, and on what

vars == <<connState, roomIdOf, chatRoomsOf, users, rooms, roomChats,
          activeCalls, dbRooms, tasks, msgLeft, lookupFailed,
          roomMessagesByRoom, dbMessages, lastPongAt, offered, announced, sent, last>>

None == "none"

\* ------------------------------------------------------------------ bounds
MaxSignals == 2   \* inbound messages of a behaviour of SpecCalls
MaxRoomMsgs == 2  \* inbound messages of a behaviour of SpecRooms
MaxMixMsgs == 3   \* inbound messages of a behaviour of SpecMix
MaxTasks == 2     \* handlers suspended at the same time
MaxCap == 1       \* max_participants of the persisted rooms of Init
MaxChatMsgs == 2  \* inbound messages of a behaviour of SpecChat
MaxRelayMsgs == 2 \* inbound messages of a behaviour of SpecRelay
MaxSubMsgs == 3   \* inbound messages of a behaviour of SpecSub
MaxSweepMsgs == 2 \* inbound messages of a behaviour of SpecSweep
MaxBufferMsgs == 3 \* inbound messages of a behaviour of SpecBuffer
MaxEvictMsgs == 2 \* inbound messages of a behaviour of SpecEvict
MaxInputMsgs == 2 \* inbound messages of a behaviour of SpecInput

\* ---------------------------------------------------------------- universe
AuthUsers == {"A", "B", "C"}
GuestId == "guest:G"
UserIds == AuthUsers \cup {GuestId}
Conns == {"a1", "a2", "b1", "c1", "g1"}
RoomIds == {"r1", "r2"}
Passwords == {"", " ", "pw", "bad"}

\* ws.data.userId, fixed at the upgrade (index.ts fetch)
userIdOf(c) ==
  CASE c \in {"a1", "a2"} -> "A"
    [] c = "b1" -> "B"
    [] c = "c1" -> "C"
    [] OTHER -> GuestId

\* ws.data.isGuest
isGuestConn(c) == c = "g1"

\* ws.data.guestRoomId: the room of the guest credential
guestRoomId == "r1"

\* id.startsWith("guest:")
isGuestId(u) == u = GuestId

\* ------------------------------------------------------------- map helpers
EmptyMap == [x \in {} |-> {}]
Has(m, k) == k \in DOMAIN m
MapSet(m, k, v) == [x \in DOMAIN m \cup {k} |-> IF x = k THEN v ELSE m[x]]
MapDel(m, k) == [x \in DOMAIN m \ {k} |-> m[x]]
GetSet(m, k) == IF k \in DOMAIN m THEN m[k] ELSE {}

\* ---------------------------------------------------------------- messages
\* len: the length of the body a room-message carries
Msg(type, from, userId, roomId, tag, list) ==
  [conn |-> None, type |-> type, from |-> from, userId |-> userId,
   roomId |-> roomId, tag |-> tag, users |-> list, len |-> 0]

\* ws.send on one socket; a closed socket delivers nothing
sendJson(c, m) ==
  IF connState[c] = "open" THEN {[m EXCEPT !.conn = c]} ELSE {}

sendToUser_Everyone(us, u, m) ==
  {[m EXCEPT !.conn = c] : c \in UNION {us[x] : x \in DOMAIN us}}

\* ws.ts sendToUser, over the registry `us`
sendToUser(us, u, m) == {[m EXCEPT !.conn = c] : c \in GetSet(us, u)}

\* ws.ts broadcast: every socket of every registered user but `exclude`
broadcast(us, m, exclude) ==
  UNION {sendToUser(us, u, m) : u \in DOMAIN us \ {exclude}}

\* ws.ts broadcastToRoom over the room table `rs`
broadcastToRoom(us, rs, r, m, exclude) ==
  UNION {sendToUser(us, u, m) : u \in GetSet(rs, r) \ {exclude}}

broadcastToRoomChat_Everyone(us, rc, r, m, exclude) == broadcast(us, m, exclude)

\* ws.ts broadcastToRoomChat over the subscription table `rc`
broadcastToRoomChat(us, rc, r, m, exclude) ==
  UNION {sendToUser(us, u, m) : u \in GetSet(rc, r) \ {exclude}}

\* ---------------------------------------------------------------- presence
getConnectionCount(us, u) == IF Has(us, u) THEN Cardinality(us[u]) ELSE 0

RECURSIVE isUserInRooms(_, _, _)
\* the loop of isUserInAnyRoom over the rooms still to visit
isUserInRooms(rs, todo, u) ==
  IF todo = {} THEN FALSE
  ELSE LET r == CHOOSE x \in todo : TRUE
       IN IF u \in rs[r] THEN TRUE ELSE isUserInRooms(rs, todo \ {r}, u)

isUserInAnyRoom(rs, u) == isUserInRooms(rs, DOMAIN rs, u)

resolvePresenceStatus_ConnFirst(us, rs, ac, u) ==
  IF getConnectionCount(us, u) > 0 THEN "online"
  ELSE IF Has(ac, u) \/ isUserInAnyRoom(rs, u) THEN "in-call" ELSE "offline"

resolvePresenceStatus(us, rs, ac, u) ==
  IF Has(ac, u) \/ isUserInAnyRoom(rs, u) THEN "in-call"
  ELSE IF getConnectionCount(us, u) > 0 THEN "online" ELSE "offline"

\* ------------------------------------------------------------------- tasks
\* One suspended continuation.  kind: the handler it belongs to; pc: the
\* await it is suspended on; the other fields are the locals it reads later.
NoRecord ==
  [exists |-> FALSE, is_private |-> FALSE, password_hash |-> None,
   max_participants |-> 0, is_active |-> FALSE, created_by |-> None]

\* A message body: `pad` characters of surrounding white space and `len`
\* characters between them
Body(pad, len) == [pad |-> pad, len |-> len]
NoBody == Body(0, 0)

Task(kind, pc, c) ==
  [kind |-> kind, pc |-> pc, conn |-> c, user |-> userIdOf(c), status |-> None,
   room |-> None, old |-> None, create |-> FALSE, hasName |-> FALSE,
   priv |-> FALSE, pw |-> "", bypass |-> FALSE, rec |-> NoRecord,
   visited |-> {}, body |-> NoBody]

\* updateUserStatus(u, s) suspended on setPresence
StatusTask(u, s) ==
  [kind |-> "status", pc |-> "presence", conn |-> None, user |-> u,
   status |-> s, room |-> None, old |-> None, create |-> FALSE,
   hasName |-> FALSE, priv |-> FALSE, pw |-> "", bypass |-> FALSE,
   rec |-> NoRecord, visited |-> {}, body |-> NoBody]

\* op: the handler segment; note: how it ended
\* res: what the select of an access check had returned
\* cap: the participant limit an inserting join segment had checked (0 = none)
Last(op, c, u, peer, r, note) ==
  [op |-> op, conn |-> c, user |-> u, peer |-> peer, room |-> r, note |-> note,
   cap |-> 0, res |-> None]

Fits(ts) == Cardinality(ts) <= MaxTasks

\* ------------------------------------------------------- persisted rooms
RoomRecord(priv, hash, max, owner) ==
  [exists |-> TRUE, is_private |-> priv, password_hash |-> hash,
   max_participants |-> max, is_active |-> TRUE, created_by |-> owner]

\* Bun.password.hash / verify: a hash verifies exactly the password it was made of
hashOf(p) == CASE p = "pw" -> "hash-pw" [] p = "bad" -> "hash-bad" [] OTHER -> "hash-"
verifyRoomPassword(p, h) == h = hashOf(p)

\* what the rooms table may hold when the server starts: nothing, or rooms
\* created through the HTTP API with a participant limit
DbEmpty == [r \in RoomIds |-> NoRecord]
DbLimited ==
  [r \in RoomIds |->
     IF r = "r1" THEN RoomRecord(TRUE, hashOf("pw"), MaxCap, "A")
     ELSE RoomRecord(FALSE, None, MaxCap, "B")]

\* the rows of room_members, written through the HTTP API only (invitations,
\* join requests): B is a member of r1 whenever r1 is persisted
roomMemberRows == [r \in RoomIds |-> IF r = "r1" THEN {"B"} ELSE {}]

\* roomMembers.ts getRoomMemberRole: whether u has a row for room r
getRoomMemberRole(db, r, u) == db[r].exists /\ u \in roomMemberRows[r]

\* rooms.ts setRoomActive: update ... where id = r
setRoomActive(db, r, b) ==
  IF db[r].exists THEN [db EXCEPT ![r].is_active = b] ELSE db

\* ------------------------------------------------------------------- Init
\* the state after construction, the fallback cache being one of `caches`
InitWithCache(dbs, n, caches) ==
  /\ connState = [c \in Conns |-> "new"]
  /\ lastPongAt = [c \in Conns |-> "fresh"]
  /\ roomIdOf = [c \in Conns |-> None]
  /\ chatRoomsOf = [c \in Conns |-> {}]
  /\ users = EmptyMap
  /\ rooms = EmptyMap
  /\ roomChats = EmptyMap
  /\ activeCalls = EmptyMap
  /\ dbRooms \in dbs
  /\ tasks = {}
  /\ msgLeft = n
  /\ lookupFailed = FALSE
  /\ offered = {}
  /\ announced = [u \in UserIds |-> None]
  /\ roomMessagesByRoom \in caches
  /\ dbMessages = <<>>
  /\ sent = {}
  /\ last = Last("init", None, None, None, None, None)

InitWith(dbs, n) == InitWithCache(dbs, n, {EmptyMap})

\* ws.data.lastPongAt = Date.now() (index.ts 140, 169)
touch(lp, c) == [lp EXCEPT ![c] = "fresh"]

\* ------------------------------------------------------ connection registry
\* index.ts open: users.get / new Set / users.set / sockets.add
register(us, u, c) == MapSet(us, u, GetSet(us, u) \cup {c})

unregister_KeepEmpty(us, u, c) ==
  IF Has(us, u) THEN MapSet(us, u, us[u] \ {c}) ELSE us

\* index.ts close: sockets.delete(ws); if (sockets.size === 0) users.delete
unregister(us, u, c) ==
  IF ~Has(us, u) THEN us
  ELSE IF us[u] \ {c} = {} THEN MapDel(us, u)
  ELSE MapSet(us, u, us[u] \ {c})

\* ------------------------------------------------------------ room table
\* rooms.delete(roomId); clearRoomMessages(roomId) (rooms.ts 314-316, 341-343,
\* roomMessages.ts 118-120): the cache entries of the rooms that a leave
\* deletes from the room table rs, leaving rs2, are deleted with them
clearRoomMessages(cache, rs, rs2) ==
  [r \in DOMAIN cache \ (DOMAIN rs \ DOMAIN rs2) |-> cache[r]]

roomLeave_KeepEmpty(rs, r, u) ==
  IF ~Has(rs, r) THEN rs ELSE MapSet(rs, r, rs[r] \ {u})

\* room.delete(userId); if (room.size === 0) rooms.delete(roomId)
roomLeave(rs, r, u) ==
  IF ~Has(rs, r) THEN rs
  ELSE IF rs[r] \ {u} = {} THEN MapDel(rs, r)
  ELSE MapSet(rs, r, rs[r] \ {u})

\* if (!rooms.has(roomId)) rooms.set(roomId, new Set()); rooms.get(roomId).add
roomJoin(rs, r, u) == MapSet(rs, r, GetSet(rs, r) \cup {u})

roomLeftMsg(r, u) == Msg("room-user-left", None, u, r, None, {})

\* else broadcastToRoom(roomId, {type: "room-user-left", ...}, userId): the
\* broadcast of a leave, only when the room has an entry that stays
roomLeftSent(us, rs, r, u) ==
  IF Has(rs, r) /\ rs[r] \ {u} # {}
  THEN broadcastToRoom(us, roomLeave(rs, r, u), r, roomLeftMsg(r, u), u)
  ELSE {}

\* --------------------------------------------------------- presence events
statusMsg(u, s) == Msg("user-status", None, u, None, s, {})

\* updateUserStatus after its await: broadcast({type: "user-status", ...})
statusBroadcast(us, u, s) == broadcast(us, statusMsg(u, s), None)

\* --------------------------------------------------------------- open
isFirst_Always(us, u) == TRUE

\* index.ts 142: const isFirstConnection = !sockets || sockets.size === 0
isFirst(us, u) == ~Has(us, u) \/ us[u] = {}

\* index.ts websocket.open, up to its first await
\* A guest's open calls handleJoinRoom for the room of its credential, which
\* suspends on the room lookup; bypass is the credential's allowPrivate.
Open(c, bypass) ==
  /\ connState[c] = "new"
  /\ isGuestConn(c) \/ ~bypass
  /\ LET u == userIdOf(c)
         isFirstConnection == isFirst(users, u)
         us == register(users, u, c)
         status == resolvePresenceStatus(us, rooms, activeCalls, u)
     IN /\ users' = us
        /\ connState' = [connState EXCEPT ![c] = "open"]
        /\ tasks' = IF isGuestConn(c)
                    THEN tasks \cup {[Task("open-join", "lookup", c) EXCEPT
                                        !.room = guestRoomId, !.bypass = bypass]}
                    ELSE IF isFirstConnection
                    THEN tasks \cup {[Task("open", "presence", c) EXCEPT !.status = status]}
                    ELSE tasks
        /\ Fits(tasks')
        /\ last' = Last("open", c, u, None, None,
                        IF isFirstConnection THEN "first" ELSE "more")
  /\ sent' = {}
  /\ lastPongAt' = touch(lastPongAt, c)
  /\ UNCHANGED <<roomIdOf, chatRoomsOf, rooms, roomMessagesByRoom, roomChats, activeCalls, dbRooms, msgLeft, offered, announced, lookupFailed, dbMessages>>

\* websocket.open resumed from `await updateUserStatus`: the status
\* broadcast, then broadcast({type: "user-connected"}, userId)
OpenPresence(t) ==
  /\ t \in tasks /\ t.kind = "open" /\ t.pc = "presence"
  /\ tasks' = tasks \ {t}
  /\ sent' = statusBroadcast(users, t.user, t.status)
              \cup broadcast(users, Msg("user-connected", None, t.user, None, None, {}), t.user)
  /\ last' = Last("open-presence", t.conn, t.user, None, None, t.status)
  /\ announced' = [announced EXCEPT ![t.user] = "user-connected"]
  /\ UNCHANGED <<connState, roomIdOf, chatRoomsOf, users, rooms, roomMessagesByRoom, roomChats,
                 activeCalls, dbRooms, msgLeft, offered, lastPongAt, lookupFailed, dbMessages>>

\* a `void updateUserStatus(u, s)` resumed from `await setPresence`
StatusDone(t) ==
  /\ t \in tasks /\ t.kind = "status"
  /\ tasks' = tasks \ {t}
  /\ sent' = statusBroadcast(users, t.user, t.status)
  /\ last' = Last("status", None, t.user, None, None, t.status)
  /\ UNCHANGED <<connState, roomIdOf, chatRoomsOf, users, rooms, roomMessagesByRoom, roomChats,
                 activeCalls, dbRooms, msgLeft, offered, announced, lastPongAt, lookupFailed, dbMessages>>

\* ------------------------------------------------------- direct signaling
SignalTypes == {"offer", "answer", "hangup", "ice-candidate", "screen-share"}

guestBlocked_SignalsOnly(c, type) == isGuestConn(c) /\ type \in SignalTypes

\* `if (isGuest) return` of direct signaling (index.ts 183) and typing (230),
\* `if (isGuest) break` of start-call (347)
guestBlocked(c, type) == isGuestConn(c)

offerBusy_CalleeOnly(rs, ac, from, to) == Has(ac, to) \/ isUserInAnyRoom(rs, to)

\* the guard of the offer branch (index.ts 189-194)
offerBusy(rs, ac, from, to) ==
  Has(ac, to) \/ Has(ac, from) \/ isUserInAnyRoom(rs, to) \/ isUserInAnyRoom(rs, from)

answerCalls_OneSided(ac, from, to) == MapSet(ac, from, to)

\* activeCalls.set(from, to); activeCalls.set(to, from)
answerCalls(ac, from, to) == MapSet(MapSet(ac, from, to), to, from)

hangupPeer_Declared(ac, from, to) == to

\* const peerId = activeCalls.get(from) ?? to
hangupPeer(ac, from, to) == IF Has(ac, from) THEN ac[from] ELSE to

\* activeCalls.delete(from); activeCalls.delete(peerId)
hangupCalls(ac, from, to) == MapDel(MapDel(ac, from), hangupPeer(ac, from, to))

\* index.ts websocket.message for offer / answer / ice-candidate / hangup /
\* screen-share; to = None stands for a missing or empty `to`
Signal(c, type, to) ==
  /\ connState[c] = "open"
  /\ msgLeft > 0
  /\ msgLeft' = msgLeft - 1 /\ lastPongAt' = touch(lastPongAt, c)
  /\ offered' = IF type = "offer" /\ ~guestBlocked(c, type) /\ to # None
                    /\ ~offerBusy(rooms, activeCalls, userIdOf(c), to)
                 THEN offered \cup {<<userIdOf(c), to>>}
                 ELSE offered
  /\ UNCHANGED announced
  /\ UNCHANGED <<lookupFailed, dbMessages>>
  /\ LET from == userIdOf(c)
         relay == sendToUser(users, to, Msg(type, from, None, None, None, {}))
     IN IF guestBlocked(c, type) \/ to = None
        THEN /\ sent' = {}
             /\ last' = Last(type, c, from, to, None, "dropped")
             /\ UNCHANGED <<activeCalls, tasks>>
        ELSE IF type = "offer" /\ offerBusy(rooms, activeCalls, from, to)
        THEN /\ sent' = sendToUser(users, from, Msg("hangup", to, None, None, "rejected", {}))
             /\ last' = Last(type, c, from, to, None, "rejected")
             /\ UNCHANGED <<activeCalls, tasks>>
        ELSE IF type = "answer"
        THEN /\ activeCalls' = answerCalls(activeCalls, from, to)
             /\ tasks' = tasks \cup {StatusTask(from, "in-call"), StatusTask(to, "in-call")}
             /\ Fits(tasks')
             /\ sent' = relay
             /\ last' = Last(type, c, from, to, None, "relayed")
        ELSE IF type = "hangup"
        THEN LET peerId == hangupPeer(activeCalls, from, to)
                 ac == hangupCalls(activeCalls, from, to)
             IN /\ activeCalls' = ac
                /\ tasks' = tasks \cup
                     {StatusTask(from, resolvePresenceStatus(users, rooms, ac, from)),
                      StatusTask(peerId, resolvePresenceStatus(users, rooms, ac, peerId))}
                /\ Fits(tasks')
                /\ sent' = relay
                /\ last' = Last(type, c, from, to, None, "relayed")
        ELSE /\ sent' = relay
             /\ last' = Last(type, c, from, to, None, "relayed")
             /\ UNCHANGED <<activeCalls, tasks>>
  /\ UNCHANGED <<connState, roomIdOf, chatRoomsOf, users, rooms, roomMessagesByRoom, roomChats, dbRooms>>

\* ---------------------------------------------------------------- close
\* the chat-subscription cleanup of close (index.ts 371-380) over the rooms R
chatLeave(rc, R, u) ==
  [r \in {x \in DOMAIN rc : x \notin R \/ rc[x] \ {u} # {}} |->
     IF r \in R THEN rc[r] \ {u} ELSE rc[r]]

closeCalls_KeepPeer(ac, u, guest) ==
  IF guest \/ ~Has(ac, u) THEN ac ELSE MapDel(ac, u)

\* index.ts 381-386: the active-call cleanup of close, skipped for a guest
closeCalls(ac, u, guest) ==
  IF guest \/ ~Has(ac, u) THEN ac ELSE MapDel(MapDel(ac, u), ac[u])

\* u removed from every room of R
roomsLeaveAll(rs, R, u) ==
  [r \in {x \in DOMAIN rs : x \notin R \/ rs[x] \ {u} # {}} |->
     IF r \in R THEN rs[r] \ {u} ELSE rs[r]]

\* close after removeUserFromRooms has returned (index.ts 371-394); `pre`
\* are the messages this segment has already sent, rs the room table it left
CloseCleanup(op, c, us, rs, ts, pre) ==
  LET u == userIdOf(c)
      guest == isGuestConn(c)
      peerId == IF ~guest /\ Has(activeCalls, u) THEN activeCalls[u] ELSE None
      ac == closeCalls(activeCalls, u, guest)
  IN /\ rooms' = rs
     /\ roomMessagesByRoom' = clearRoomMessages(roomMessagesByRoom, rooms, rs)
     /\ roomChats' = chatLeave(roomChats, chatRoomsOf[c], u)
     /\ chatRoomsOf' = [chatRoomsOf EXCEPT ![c] = {}]
     /\ activeCalls' = ac
     /\ tasks' = ts
          \cup (IF peerId # None
                THEN {StatusTask(peerId, resolvePresenceStatus(us, rs, ac, peerId))}
                ELSE {})
          \cup (IF guest THEN {} ELSE {Task("close", "offline", c)})
     /\ Fits(tasks')
     /\ sent' = pre \cup
          (IF peerId # None
           THEN sendToUser(us, peerId, Msg("hangup", u, None, None, "ended", {}))
           ELSE {})
     /\ last' = Last(op, c, u, peerId, None, "clean")

\* removeUserFromRooms (rooms.ts 334-358) from the iterator position on:
\* `vis` are the entries the Map iterator has passed.  The Map is iterated
\* in insertion order, which the room table does not record: the segment
\* picks the next room of the user and the entries passed on the way.
CloseRun(op, c, us, rs, vis, ts) ==
  LET u == userIdOf(c)
      cand == {r \in DOMAIN rs \ vis : u \in rs[r]}
      others == (DOMAIN rs \ vis) \ cand
      emptied == {r \in cand : rs[r] = {u}}
      kept == cand \ emptied
      leftAll(R) == UNION {roomLeftSent(us, rs, r, u) : r \in R}
  IN IF ~isGuestConn(c)
     THEN IF cand = {}
          THEN CloseCleanup(op, c, us, rs, ts, {})
          ELSE \E r \in cand, passed \in SUBSET others :
                 /\ rooms' = roomLeave(rs, r, u)
                 /\ roomMessagesByRoom' =
                      clearRoomMessages(roomMessagesByRoom, rooms, roomLeave(rs, r, u))
                 /\ sent' = roomLeftSent(us, rs, r, u)
                 /\ tasks' = ts \cup {[Task("close", "rooms1", c) EXCEPT
                                         !.room = r, !.visited = vis \cup passed \cup {r}]}
                 /\ Fits(tasks')
                 /\ last' = Last(op, c, u, None, r, "rooms")
                 /\ UNCHANGED <<roomChats, chatRoomsOf, activeCalls>>
     ELSE \* skipPresence: the loop awaits only after emptying a room
          \/ /\ emptied = {}
             /\ CloseCleanup(op, c, us, roomsLeaveAll(rs, kept, u), ts, leftAll(kept))
          \/ \E r \in emptied, S \in SUBSET kept, passed \in SUBSET others :
                 /\ rooms' = roomsLeaveAll(rs, S \cup {r}, u)
                 /\ roomMessagesByRoom' =
                      clearRoomMessages(roomMessagesByRoom, rooms, roomsLeaveAll(rs, S \cup {r}, u))
                 /\ sent' = leftAll(S)
                 /\ tasks' = ts \cup {[Task("close", "rooms2", c) EXCEPT
                                         !.room = r, !.visited = vis \cup passed \cup S \cup {r}]}
                 /\ Fits(tasks')
                 /\ last' = Last(op, c, u, None, r, "rooms")
                 /\ UNCHANGED <<roomChats, chatRoomsOf, activeCalls>>

\* index.ts websocket.close up to its first await that waits for I/O
CloseHandler(op, c) ==
  LET u == userIdOf(c)
      us == unregister(users, u, c)
      isLastConnection == ~Has(users, u) \/ users[u] \ {c} = {}
  IN /\ users' = us
     /\ IF isLastConnection
        THEN CloseRun(op, c, us, rooms, {}, tasks)
        ELSE /\ sent' = {}
             /\ last' = Last(op, c, u, None, None, "kept")
             /\ UNCHANGED <<rooms, roomMessagesByRoom, roomChats, chatRoomsOf, activeCalls, tasks>>
     /\ UNCHANGED <<roomIdOf, dbRooms, msgLeft, offered, announced, lastPongAt, lookupFailed, dbMessages>>

Close(c) ==
  /\ connState[c] = "open"
  /\ connState' = [connState EXCEPT ![c] = "closed"]
  /\ CloseHandler("close", c)

\* the close handler run once more on a socket that is already closed
Reclose(c) ==
  /\ connState[c] = "closed"
  /\ UNCHANGED connState
  /\ CloseHandler("reclose", c)

\* removeUserFromRooms resumed from `await deactivateParticipant`
CloseRooms1(t) ==
  /\ t \in tasks /\ t.kind = "close" /\ t.pc = "rooms1"
  /\ IF ~Has(rooms, t.room)
     THEN /\ tasks' = (tasks \ {t}) \cup {[t EXCEPT !.pc = "rooms2"]}
          /\ sent' = {}
          /\ last' = Last("close-rooms", t.conn, t.user, None, t.room, "rooms")
          /\ UNCHANGED <<rooms, roomMessagesByRoom, roomChats, chatRoomsOf, activeCalls>>
     ELSE CloseRun("close-rooms", t.conn, users, rooms, t.visited, tasks \ {t})
  /\ UNCHANGED <<connState, roomIdOf, users, dbRooms, msgLeft, offered, announced, lastPongAt, lookupFailed, dbMessages>>

\* removeUserFromRooms resumed from `await setRoomActive(roomId, false)`
CloseRooms2(t) ==
  /\ t \in tasks /\ t.kind = "close" /\ t.pc = "rooms2"
  /\ dbRooms' = setRoomActive(dbRooms, t.room, FALSE)
  /\ CloseRun("close-rooms", t.conn, users, rooms, t.visited, tasks \ {t})
  /\ UNCHANGED <<connState, roomIdOf, users, msgLeft, offered, announced, lastPongAt, lookupFailed, dbMessages>>

\* close resumed from `await updateUserStatus(userId, "offline")`
CloseOffline(t) ==
  /\ t \in tasks /\ t.kind = "close" /\ t.pc = "offline"
  /\ tasks' = tasks \ {t}
  /\ sent' = statusBroadcast(users, t.user, "offline")
              \cup broadcast(users, Msg("user-disconnected", None, t.user, None, None, {}), t.user)
  /\ last' = Last("close-offline", t.conn, t.user, None, None, "done")
  /\ announced' = [announced EXCEPT ![t.user] = "user-disconnected"]
  /\ UNCHANGED <<connState, roomIdOf, chatRoomsOf, users, rooms, roomMessagesByRoom, roomChats,
                 activeCalls, dbRooms, msgLeft, offered, lastPongAt, lookupFailed, dbMessages>>

\* ------------------------------------------------------ join-room / leave-room
\* String.prototype.trim on the passwords of the model
trim(p) == IF p = " " THEN "" ELSE p

errorMsg(text) == Msg("error", None, None, None, text, {})

\* The result of one handler segment of handleJoinRoom / handleLeaveRoom:
\* the room table, the sockets' roomId and the persisted rooms it leaves, the
\* continuation it suspends on (next), what it sent, how it ended, and
\* whether the handler function returned (done); cap is the participant limit
\* an insertion was checked against.
Outcome(rs, rid, db, next, out, note, done) ==
  [rs |-> rs, rid |-> rid, db |-> db, next |-> next, out |-> out,
   note |-> note, done |-> done, cap |-> 0, res |-> None]

\* sendJson(ws, {type: "error", message}); return
Reject(t, db, text) ==
  Outcome(rooms, roomIdOf, db, {}, sendJson(t.conn, errorMsg(text)), text, TRUE)

roomIsFull_OffByOne(rs, r, max) ==
  max > 0 /\ Cardinality(GetSet(rs, r)) > max

\* rooms.ts 248-251: maxParticipants > 0 and currentSize >= maxParticipants
roomIsFull(rs, r, max) ==
  max > 0 /\ Cardinality(GetSet(rs, r)) >= max

\* rooms.ts 275-281: the insertion, then await upsertParticipantJoin / setRoomActive
joinInsert(t, rec, db) ==
  [Outcome(roomJoin(rooms, t.room, t.user), [roomIdOf EXCEPT ![t.conn] = t.room], db,
           {[t EXCEPT !.pc = "joined"]}, {}, "inserted", FALSE)
     EXCEPT !.cap = IF rec.exists THEN rec.max_participants ELSE 0]

hasAuthenticated_Always(rs, r) == TRUE

\* rooms.ts 238-241: Array.from(existing ?? []).some((id) => !id.startsWith("guest:"))
hasAuthenticated(rs, r) == \E id \in GetSet(rs, r) : ~isGuestId(id)

\* rooms.ts 237-273: guest restriction, capacity, private-room password
joinChecks2(t, rec, db) ==
  LET guest == isGuestConn(t.conn)
  IN IF guest /\ ~hasAuthenticated(rooms, t.room) THEN Reject(t, db, "Room inactive")
     ELSE IF rec.exists /\ roomIsFull(rooms, t.room, rec.max_participants)
     THEN Reject(t, db, "Room is full")
     ELSE IF rec.exists /\ rec.is_private /\ ~(guest /\ t.bypass)
     THEN IF trim(t.pw) = "" THEN Reject(t, db, "Room password required")
          ELSE IF rec.password_hash = None THEN Reject(t, db, "Invalid room password")
          ELSE Outcome(rooms, roomIdOf, db, {[t EXCEPT !.pc = "verify", !.rec = rec]},
                       {}, "verify-wait", FALSE)
     ELSE joinInsert(t, rec, db)

\* rooms.ts 204-235, for a roomResult that is allowed: rec is roomResult.room
joinChecks(t, rec, db) ==
  IF isGuestConn(t.conn) /\ ~rec.exists /\ ~Has(rooms, t.room)
  THEN Reject(t, db, "Room not found")
  ELSE IF rec.exists /\ ~rec.is_active
  THEN IF rec.created_by # t.user THEN Reject(t, db, "Room inactive")
       ELSE Outcome(rooms, roomIdOf, db, {[t EXCEPT !.pc = "activate", !.rec = rec]},
                    {}, "activate-wait", FALSE)
  ELSE joinChecks2(t, rec, db)

lookupError_Refused == [room |-> NoRecord, allowed |-> FALSE]

\* rooms.ts 70-73 and 120-123: what ensureRoomRecord returns when the select
\* returns an error or throws
lookupError == [room |-> NoRecord, allowed |-> TRUE]

\* ensureRoomRecord resumed from the select (rooms.ts 64-119), ok = the
\* select returned no error, and the checks of handleJoinRoom that follow;
\* the outcome records in `res` what the select returned
joinLookup(t, ok) ==
  LET rec == dbRooms[t.room]
      o == IF ~ok /\ lookupError.allowed THEN joinChecks(t, lookupError.room, dbRooms)
           ELSE IF ~ok THEN Reject(t, dbRooms, "Room not found")
           ELSE IF rec.exists THEN joinChecks(t, rec, dbRooms)
           ELSE IF ~t.create THEN Reject(t, dbRooms, "Room not found")
           ELSE IF ~t.hasName THEN Reject(t, dbRooms, "Room name required")
           ELSE IF t.priv /\ t.pw = "" THEN Reject(t, dbRooms, "Room password required")
           ELSE IF t.priv /\ trim(t.pw) = "" THEN Reject(t, dbRooms, "Room password required")
           ELSE Outcome(rooms, roomIdOf, dbRooms, {[t EXCEPT !.pc = "create"]},
                        {}, "create-wait", FALSE)
  IN [o EXCEPT !.res = IF ok THEN "row" ELSE "error"]

\* ensureRoomRecord resumed from the insert (rooms.ts 103-117): a second
\* insert of the same id fails
joinCreate(t) ==
  IF dbRooms[t.room].exists THEN Reject(t, dbRooms, "Room error")
  ELSE joinChecks(t, NoRecord,
         [dbRooms EXCEPT ![t.room] =
            RoomRecord(t.priv, IF t.priv THEN hashOf(trim(t.pw)) ELSE None, 0, t.user)])

\* handleJoinRoom resumed from verifyRoomPassword (rooms.ts 268-277)
joinVerify(t) ==
  IF verifyRoomPassword(trim(t.pw), t.rec.password_hash)
  THEN joinInsert(t, t.rec, dbRooms)
  ELSE Reject(t, dbRooms, "Invalid room password")

roomJoinedMsg_SelfOnly(r, members, u) == Msg("room-joined", None, u, r, None, {u})

\* {type: "room-joined", roomId, users: Array.from(rooms.get(roomId)), selfId}
roomJoinedMsg(r, members, u) == Msg("room-joined", None, u, r, None, members)

\* handleJoinRoom resumed from upsertParticipantJoin / setRoomActive
\* (rooms.ts 283-289): Array.from(rooms.get(roomId)!) throws when the room
\* entry is gone
joinJoined(t) ==
  LET db == setRoomActive(dbRooms, t.room, TRUE)
  IN IF ~Has(rooms, t.room)
     THEN Outcome(rooms, roomIdOf, db, {}, {}, "threw", FALSE)
     ELSE Outcome(rooms, roomIdOf, db, {[t EXCEPT !.pc = "history"]},
                  sendJson(t.conn, roomJoinedMsg(t.room, rooms[t.room], t.user)),
                  "room-joined", FALSE)

\* handleJoinRoom resumed from getRoomMessages (rooms.ts 290-301); stored
\* says whether the message store returned a non-empty transcript
joinHistory(t, stored) ==
  Outcome(rooms, roomIdOf, dbRooms, {},
          (IF stored THEN sendJson(t.conn, Msg("room-messages", None, None, t.room, None, {}))
           ELSE {})
          \cup broadcastToRoom(users, rooms, t.room,
                               Msg("room-user-joined", None, t.user, t.room, None, {}), t.user),
          "joined", TRUE)

\* handleLeaveRoom (rooms.ts 308-324) up to its first await, for a socket
\* whose roomId is set; `then` is the pc the caller continues at
leaveStart(t, then) ==
  LET old == roomIdOf[t.conn]
      rs == roomLeave(rooms, old, t.user)
      out == roomLeftSent(users, rooms, old, t.user)
      t1 == [t EXCEPT !.old = old]
  IN IF ~isGuestConn(t.conn)
     THEN Outcome(rs, roomIdOf, dbRooms, {[t1 EXCEPT !.pc = "leave1"]}, out, "leave-wait", FALSE)
     ELSE IF ~Has(rs, old)
     THEN Outcome(rs, roomIdOf, dbRooms, {[t1 EXCEPT !.pc = "leave2"]}, out, "leave-wait", FALSE)
     ELSE Outcome(rs, [roomIdOf EXCEPT ![t.conn] = None], dbRooms,
                  IF then = "end" THEN {} ELSE {[t1 EXCEPT !.pc = then]},
                  out, "left", then = "end")

\* handleLeaveRoom resumed from deactivateParticipant (rooms.ts 328-331)
leaveOne(t, then) ==
  IF ~Has(rooms, t.old)
  THEN Outcome(rooms, roomIdOf, dbRooms, {[t EXCEPT !.pc = "leave2"]}, {}, "leave-wait", FALSE)
  ELSE Outcome(rooms, [roomIdOf EXCEPT ![t.conn] = None], dbRooms,
               IF then = "end" THEN {} ELSE {[t EXCEPT !.pc = then]},
               {}, "left", then = "end")

\* handleLeaveRoom resumed from setRoomActive(roomId, false)
leaveTwo(t, then) ==
  Outcome(rooms, [roomIdOf EXCEPT ![t.conn] = None],
          setRoomActive(dbRooms, t.old, FALSE),
          IF then = "end" THEN {} ELSE {[t EXCEPT !.pc = then]},
          {}, "left", then = "end")

\* where a handler continues once its handleLeaveRoom has returned
afterLeave(t) == IF t.kind = "leave-room" THEN "end" ELSE "lookup"

\* A segment's outcome applied.  When the handler function has returned to
\* websocket.message, index.ts 332-344 starts `void updateUserStatus` with
\* the presence resolved at that moment (not for a guest's leave-room, and
\* not for the join that websocket.open awaits).
Apply(op, t, ts, o) ==
  /\ rooms' = o.rs
  /\ roomMessagesByRoom' = clearRoomMessages(roomMessagesByRoom, rooms, o.rs)
  /\ roomIdOf' = o.rid
  /\ dbRooms' = o.db
  /\ tasks' = ts \cup o.next \cup
       (IF o.done /\ t.kind \in {"join-room", "leave-room"} /\ ~isGuestConn(t.conn)
        THEN {StatusTask(t.user, resolvePresenceStatus(users, o.rs, activeCalls, t.user))}
        ELSE {})
  /\ Fits(tasks')
  /\ sent' = o.out
  /\ last' = [Last(op, t.conn, t.user, None,
                   IF t.pc \in {"leave1", "leave2"} \/ t.kind = "leave-room" THEN t.old ELSE t.room,
                   o.note)
               EXCEPT !.cap = o.cap, !.res = o.res]

\* the fields of a join-room message: name, isPrivate are read only to create
JoinInputs ==
  {i \in [create : BOOLEAN, hasName : BOOLEAN, priv : BOOLEAN, pw : Passwords] :
     /\ ~i.create => ~i.hasName
     /\ ~i.hasName => ~i.priv
     /\ (i.create /\ ~i.priv) => i.pw = ""}

\* index.ts 318-331 and handleJoinRoom up to its first await (rooms.ts 191-199);
\* r = None stands for a missing roomId
JoinRoom(c, r, i) ==
  /\ connState[c] = "open"
  /\ msgLeft > 0
  /\ msgLeft' = msgLeft - 1 /\ lastPongAt' = touch(lastPongAt, c) /\ UNCHANGED <<offered, announced>> /\ UNCHANGED <<lookupFailed, dbMessages>>
  /\ LET t == [Task("join-room", "lookup", c) EXCEPT !.room = r, !.create = i.create,
                 !.hasName = i.hasName, !.priv = i.priv, !.pw = i.pw]
     IN IF isGuestConn(c)
        THEN /\ sent' = {}
             /\ last' = Last("join-room", c, userIdOf(c), None, r, "dropped")
             /\ UNCHANGED <<rooms, roomMessagesByRoom, roomIdOf, dbRooms, tasks>>
        ELSE IF r = None
        THEN /\ sent' = sendJson(c, errorMsg("Room not found"))
             /\ last' = Last("join-room", c, userIdOf(c), None, r, "Room not found")
             /\ UNCHANGED <<rooms, roomMessagesByRoom, roomIdOf, dbRooms, tasks>>
        ELSE IF roomIdOf[c] \notin {None, r}
        THEN Apply("join-room", t, tasks, leaveStart(t, "lookup"))
        ELSE Apply("join-room", t, tasks,
                   Outcome(rooms, roomIdOf, dbRooms, {t}, {}, "lookup-wait", FALSE))
  /\ UNCHANGED <<connState, chatRoomsOf, users, roomChats, activeCalls>>

\* index.ts 337-345 and handleLeaveRoom up to its first await
LeaveRoom(c) ==
  /\ connState[c] = "open"
  /\ msgLeft > 0
  /\ msgLeft' = msgLeft - 1 /\ lastPongAt' = touch(lastPongAt, c) /\ UNCHANGED <<offered, announced>> /\ UNCHANGED <<lookupFailed, dbMessages>>
  /\ LET t == Task("leave-room", "start", c)
     IN IF roomIdOf[c] = None
        THEN Apply("leave-room", t, tasks,
                   Outcome(rooms, roomIdOf, dbRooms, {}, {}, "no-room", TRUE))
        ELSE Apply("leave-room", t, tasks, leaveStart(t, "end"))
  /\ UNCHANGED <<connState, chatRoomsOf, users, roomChats, activeCalls>>

Resumable(t, pc) == t \in tasks /\ t.pc = pc

JoinKinds == {"join-room", "open-join"}

LeaveOne(t) ==
  /\ Resumable(t, "leave1")
  /\ Apply("leave1", t, tasks \ {t}, leaveOne(t, afterLeave(t)))
  /\ UNCHANGED <<connState, chatRoomsOf, users, roomChats, activeCalls, msgLeft, offered, announced, lastPongAt, lookupFailed, dbMessages>>

LeaveTwo(t) ==
  /\ Resumable(t, "leave2")
  /\ Apply("leave2", t, tasks \ {t}, leaveTwo(t, afterLeave(t)))
  /\ UNCHANGED <<connState, chatRoomsOf, users, roomChats, activeCalls, msgLeft, offered, announced, lastPongAt, lookupFailed, dbMessages>>

JoinLookup(t) ==
  /\ Resumable(t, "lookup") /\ t.kind \in JoinKinds
  /\ \E ok \in BOOLEAN : /\ Apply("lookup", t, tasks \ {t}, joinLookup(t, ok))
                          /\ lookupFailed' = (lookupFailed \/ ~ok)
  /\ UNCHANGED <<connState, chatRoomsOf, users, roomChats, activeCalls, msgLeft, offered, announced, lastPongAt, dbMessages>>

JoinCreate(t) ==
  /\ Resumable(t, "create")
  /\ Apply("create", t, tasks \ {t}, joinCreate(t))
  /\ UNCHANGED <<connState, chatRoomsOf, users, roomChats, activeCalls, msgLeft, offered, announced, lastPongAt, lookupFailed, dbMessages>>

\* handleJoinRoom resumed from setRoomActive(roomId, true) (rooms.ts 234)
JoinActivate(t) ==
  /\ Resumable(t, "activate")
  /\ Apply("activate", t, tasks \ {t},
           joinChecks2(t, t.rec, setRoomActive(dbRooms, t.room, TRUE)))
  /\ UNCHANGED <<connState, chatRoomsOf, users, roomChats, activeCalls, msgLeft, offered, announced, lastPongAt, lookupFailed, dbMessages>>

JoinVerify(t) ==
  /\ Resumable(t, "verify")
  /\ Apply("verify", t, tasks \ {t}, joinVerify(t))
  /\ UNCHANGED <<connState, chatRoomsOf, users, roomChats, activeCalls, msgLeft, offered, announced, lastPongAt, lookupFailed, dbMessages>>

JoinJoined(t) ==
  /\ Resumable(t, "joined")
  /\ Apply("joined", t, tasks \ {t}, joinJoined(t))
  /\ UNCHANGED <<connState, chatRoomsOf, users, roomChats, activeCalls, msgLeft, offered, announced, lastPongAt, lookupFailed, dbMessages>>

JoinHistory(t) ==
  /\ Resumable(t, "history")
  /\ \E stored \in BOOLEAN : Apply("history", t, tasks \ {t}, joinHistory(t, stored))
  /\ UNCHANGED <<connState, chatRoomsOf, users, roomChats, activeCalls, msgLeft, offered, announced, lastPongAt, lookupFailed, dbMessages>>

\* ------------------------------------------------------------- room chat
ROOM_MESSAGE_LIMIT == 200
ROOM_MESSAGE_MAX_LENGTH == 2000

trimmedLength_Capped(b) ==
  IF b.len > ROOM_MESSAGE_MAX_LENGTH THEN ROOM_MESSAGE_MAX_LENGTH ELSE b.len

\* data.body.trim().length
trimmedLength(b) == b.len

\* the message payload of a room-message: room_id, sender_id, trimmed body
RoomMessage(r, u, b) == [room_id |-> r, sender_id |-> u, body |-> trimmedLength(b)]

canAccessRoomChat_Open(db, u, r, res) ==
  IF res = "missing-table" THEN "ok"
  ELSE IF res = "error" THEN "Room error"
  ELSE IF ~db[r].exists THEN "Room not found"
  ELSE "ok"

\* roomMessages.ts canAccessRoomChat resumed from the select; res is what
\* the select returned: a "row" result, a "missing-table" error or another
\* "error".  The result is "ok" or the error text.
canAccessRoomChat(db, u, r, res) ==
  IF res = "missing-table" THEN "ok"
  ELSE IF res = "error" THEN "Room error"
  ELSE IF ~db[r].exists THEN "Room not found"
  ELSE IF db[r].is_private /\ db[r].created_by # u THEN "Room access denied"
  ELSE "ok"

storeRoomMessageFallback_Unbounded(cache, r, m) ==
  MapSet(cache, r, Append(IF Has(cache, r) THEN cache[r] ELSE <<>>, m))

\* roomMessages.ts storeRoomMessageFallback
storeRoomMessageFallback(cache, r, m) ==
  LET existing == IF Has(cache, r) THEN cache[r] ELSE <<>>
      pushed == Append(existing, m)
      n == Len(pushed)
  IN MapSet(cache, r,
            IF n > ROOM_MESSAGE_LIMIT
            THEN SubSeq(pushed, n - ROOM_MESSAGE_LIMIT + 1, n)
            ELSE pushed)

\* index.ts room-message / join-room-chat up to `await canAccessRoomChat`;
\* r = None stands for a missing roomId
ChatStart(kind, c, r, b) ==
  /\ connState[c] = "open"
  /\ msgLeft > 0
  /\ msgLeft' = msgLeft - 1 /\ lastPongAt' = touch(lastPongAt, c) /\ UNCHANGED <<offered, announced>>
  /\ IF r = None
     THEN /\ last' = Last(kind, c, userIdOf(c), None, r, "dropped")
          /\ UNCHANGED tasks
     ELSE /\ tasks' = tasks \cup {[Task(kind, "access", c) EXCEPT !.room = r, !.body = b]}
          /\ Fits(tasks')
          /\ last' = Last(kind, c, userIdOf(c), None, r, "access-wait")
  /\ sent' = {}
  /\ UNCHANGED <<connState, roomIdOf, chatRoomsOf, users, rooms, roomMessagesByRoom,
                 roomChats, activeCalls, dbRooms, lookupFailed, dbMessages>>

SendRoomMessage(c, r, b) == ChatStart("room-message", c, r, b)

JoinRoomChat(c, r) == ChatStart("join-room-chat", c, r, NoBody)

AccessResults == {"row", "missing-table", "error"}

\* room-message / join-room-chat resumed from canAccessRoomChat
\* (index.ts 254-265 and 287-300)
ChatAccess(t) ==
  /\ t \in tasks /\ t.pc = "access"
  /\ \E res \in AccessResults :
       LET access == canAccessRoomChat(dbRooms, t.user, t.room, res)
           ended(out, note) ==
             /\ tasks' = tasks \ {t}
             /\ sent' = out
             /\ last' = [Last("access", t.conn, t.user, None, t.room, note) EXCEPT !.res = res]
             /\ UNCHANGED <<roomChats, chatRoomsOf>>
       IN IF access # "ok"
          THEN ended(sendJson(t.conn, errorMsg(access)), access)
          ELSE IF t.kind = "join-room-chat"
          THEN /\ roomChats' = MapSet(roomChats, t.room, GetSet(roomChats, t.room) \cup {t.user})
               /\ chatRoomsOf' = [chatRoomsOf EXCEPT ![t.conn] = @ \cup {t.room}]
               /\ tasks' = (tasks \ {t}) \cup {[t EXCEPT !.pc = "chat-history"]}
               /\ sent' = {}
               /\ last' = [Last("access", t.conn, t.user, None, t.room, "subscribed")
                            EXCEPT !.res = res]
          ELSE IF trimmedLength(t.body) = 0
          THEN ended({}, "empty")
          ELSE IF trimmedLength(t.body) > ROOM_MESSAGE_MAX_LENGTH
          THEN ended(sendJson(t.conn, errorMsg("Message too long")), "Message too long")
          ELSE /\ tasks' = (tasks \ {t}) \cup {[t EXCEPT !.pc = "store"]}
               /\ sent' = {}
               /\ last' = [Last("access", t.conn, t.user, None, t.room, "store-wait")
                            EXCEPT !.res = res]
               /\ UNCHANGED <<roomChats, chatRoomsOf>>
  /\ UNCHANGED <<connState, roomIdOf, users, rooms, roomMessagesByRoom, activeCalls,
                 dbRooms, msgLeft, offered, announced, lastPongAt, lookupFailed, dbMessages>>

\* room-message resumed from storeRoomMessage (roomMessages.ts 31-53,
\* index.ts 308-313); ok = the insert returned no error
ChatStore(t) ==
  /\ t \in tasks /\ t.pc = "store"
  /\ LET m == RoomMessage(t.room, t.user, t.body)
     IN \E ok \in BOOLEAN :
          /\ IF ok
             THEN /\ dbMessages' = Append(dbMessages, m)
                  /\ UNCHANGED roomMessagesByRoom
             ELSE /\ roomMessagesByRoom' = storeRoomMessageFallback(roomMessagesByRoom, t.room, m)
                  /\ UNCHANGED dbMessages
          /\ last' = Last("store", t.conn, t.user, None, t.room,
                          IF ok THEN "stored" ELSE "fallback")
  /\ tasks' = tasks \ {t}
  /\ sent' = broadcastToRoomChat(users, roomChats, t.room,
                [Msg("room-message", t.user, None, t.room, None, {})
                   EXCEPT !.len = trimmedLength(t.body)], None)
  /\ UNCHANGED <<connState, roomIdOf, chatRoomsOf, users, rooms, roomChats, activeCalls,
                 dbRooms, msgLeft, offered, announced, lastPongAt, lookupFailed>>

\* join-room-chat resumed from getRoomMessages (index.ts 267-268)
ChatHistory(t) ==
  /\ t \in tasks /\ t.pc = "chat-history"
  /\ tasks' = tasks \ {t}
  /\ sent' = sendJson(t.conn, Msg("room-messages", None, None, t.room, None, {}))
  /\ last' = Last("chat-history", t.conn, t.user, None, t.room, "history")
  /\ UNCHANGED <<connState, roomIdOf, chatRoomsOf, users, rooms, roomMessagesByRoom,
                 roomChats, activeCalls, dbRooms, msgLeft, offered, announced, lastPongAt, lookupFailed, dbMessages>>

\* index.ts leave-room-chat (271-281)
LeaveRoomChat(c, r) ==
  /\ connState[c] = "open"
  /\ msgLeft > 0
  /\ msgLeft' = msgLeft - 1 /\ lastPongAt' = touch(lastPongAt, c) /\ UNCHANGED <<offered, announced>>
  /\ IF r = None
     THEN UNCHANGED <<roomChats, chatRoomsOf>>
     ELSE /\ roomChats' = chatLeave(roomChats, {r}, userIdOf(c))
          /\ chatRoomsOf' = [chatRoomsOf EXCEPT ![c] = @ \ {r}]
  /\ sent' = {}
  /\ last' = Last("leave-room-chat", c, userIdOf(c), None, r,
                  IF r = None THEN "dropped" ELSE "left")
  /\ UNCHANGED <<connState, roomIdOf, users, rooms, roomMessagesByRoom, activeCalls,
                 dbRooms, tasks, lookupFailed, dbMessages>>

\* ------------------------------------------------- relay-only messages
RoomSignalTypes == {"room-offer", "room-answer", "room-ice"}

roomSignalAllowed_SenderOnly(rs, from, to, r) == Has(rs, r) /\ from \in rs[r]

\* index.ts 244-245: room && room.has(from) && room.has(to)
roomSignalAllowed(rs, from, to, r) ==
  Has(rs, r) /\ from \in rs[r] /\ to \in rs[r]

\* index.ts room-offer / room-answer / room-ice (239-248); to, r = None
\* stand for a missing `to`, `roomId`
RoomSignal(c, type, to, r) ==
  /\ connState[c] = "open"
  /\ msgLeft > 0
  /\ msgLeft' = msgLeft - 1 /\ lastPongAt' = touch(lastPongAt, c) /\ UNCHANGED <<offered, announced>>
  /\ LET from == userIdOf(c)
         ok == to # None /\ r # None /\ roomSignalAllowed(rooms, from, to, r)
     IN /\ sent' = IF ok THEN sendToUser(users, to, Msg(type, from, None, r, None, {}))
                   ELSE {}
        /\ last' = Last(type, c, from, to, r, IF ok THEN "relayed" ELSE "dropped")
  /\ UNCHANGED <<connState, roomIdOf, chatRoomsOf, users, rooms, roomMessagesByRoom,
                 roomChats, activeCalls, dbRooms, tasks, lookupFailed, dbMessages>>

\* index.ts typing (229-237) and start-call (346-353): relayed to the
\* target's sockets unless the sender is a guest; to = None stands for a
\* missing target
Relay(c, type, to) ==
  /\ connState[c] = "open"
  /\ msgLeft > 0
  /\ msgLeft' = msgLeft - 1 /\ lastPongAt' = touch(lastPongAt, c) /\ UNCHANGED <<offered, announced>>
  /\ LET from == userIdOf(c)
         out == IF type = "typing" THEN "typing" ELSE "incoming-call"
         ok == ~guestBlocked(c, type) /\ to # None
     IN /\ sent' = IF ok THEN sendToUser(users, to, Msg(out, from, None, None, None, {}))
                   ELSE {}
        /\ last' = Last(type, c, from, to, None, IF ok THEN "relayed" ELSE "dropped")
  /\ UNCHANGED <<connState, roomIdOf, chatRoomsOf, users, rooms, roomMessagesByRoom,
                 roomChats, activeCalls, dbRooms, tasks, lookupFailed, dbMessages>>

\* ------------------------------------------- room membership over HTTP
\* routes/rooms.ts PATCH /api/rooms/members, action "remove", after its last
\* await (728-736); the requests that get there name a persisted room and a
\* target who is not its creator, and come from an admin of the room
HttpRemoveMember(r, target) ==
  /\ dbRooms[r].exists /\ dbRooms[r].created_by # target
  /\ IF Has(rooms, r) /\ target \in rooms[r]
     THEN /\ rooms' = roomLeave(rooms, r, target)
          /\ sent' = broadcastToRoom(users, rooms', r, roomLeftMsg(r, target), target)
                      \cup sendToUser(users, target, Msg("room-kicked", None, None, r, None, {}))
          /\ last' = Last("http-remove", None, target, None, r, "removed")
     ELSE /\ UNCHANGED rooms
          /\ sent' = {}
          /\ last' = Last("http-remove", None, target, None, r, "absent")
  /\ UNCHANGED <<connState, roomIdOf, chatRoomsOf, users, roomMessagesByRoom, roomChats,
                 activeCalls, dbRooms, tasks, msgLeft, offered, announced, lastPongAt, lookupFailed,
                 dbMessages>>

\* ------------------------------------------- unhandled inbound frames
\* what JSON.parse and the dispatch make of a frame that no branch handles:
\* text that is no JSON, JSON "null" (reading data.type throws), or a
\* message whose type no branch names
OtherFrames == {"unparseable", "null", "unknown-type"}

messageError_Close(cs, c) == [cs EXCEPT ![c] = "closing"]

\* index.ts 355-357: catch (e) { console.error(...) }
messageError(cs, c) == cs

\* index.ts message (165-358) for a frame of OtherFrames: JSON.parse throws
\* before lastPongAt is set, data.type of null throws after it, and an
\* unknown type falls through every test and the switch
OtherMessage(c, frame) ==
  /\ connState[c] = "open"
  /\ msgLeft > 0
  /\ msgLeft' = msgLeft - 1 /\ UNCHANGED <<offered, announced>>
  /\ lastPongAt' = IF frame = "unparseable" THEN lastPongAt ELSE touch(lastPongAt, c)
  /\ connState' = IF frame = "unknown-type" THEN connState ELSE messageError(connState, c)
  /\ sent' = {}
  /\ last' = Last("message", c, userIdOf(c), None, None, frame)
  /\ UNCHANGED <<roomIdOf, chatRoomsOf, users, rooms, roomMessagesByRoom, roomChats,
                 activeCalls, dbRooms, tasks, lookupFailed, dbMessages>>

\* routes/rooms.ts PATCH /api/rooms/members, action "leave", after its last
\* await (687-694); the requests that get there come from the target, who is
\* not the creator of the persisted room
HttpLeaveMember(r, target) ==
  /\ dbRooms[r].exists /\ dbRooms[r].created_by # target
  /\ IF Has(rooms, r) /\ target \in rooms[r]
     THEN /\ rooms' = roomLeave(rooms, r, target)
          /\ sent' = broadcastToRoom(users, rooms', r, roomLeftMsg(r, target), target)
          /\ last' = Last("http-leave", None, target, None, r, "removed")
     ELSE /\ UNCHANGED rooms
          /\ sent' = {}
          /\ last' = Last("http-leave", None, target, None, r, "absent")
  /\ UNCHANGED <<connState, roomIdOf, chatRoomsOf, users, roomMessagesByRoom, roomChats,
                 activeCalls, dbRooms, tasks, msgLeft, offered, announced, lastPongAt, lookupFailed,
                 dbMessages>>

\* ------------------------------------------------------ liveness sweep
\* index.ts presence-pong (171-176): lastPongAt is set as for every message;
\* touchLastSeen writes the profile store only
PresencePong(c) ==
  /\ connState[c] = "open"
  /\ msgLeft > 0
  /\ msgLeft' = msgLeft - 1 /\ lastPongAt' = touch(lastPongAt, c) /\ UNCHANGED <<offered, announced>>
  /\ sent' = {}
  /\ last' = Last("presence-pong", c, userIdOf(c), None, None, "pong")
  /\ UNCHANGED <<connState, roomIdOf, chatRoomsOf, users, rooms, roomMessagesByRoom,
                 roomChats, activeCalls, dbRooms, tasks, lookupFailed, dbMessages>>

\* the clock passes PRESENCE_TTL_MS since the last message of socket c
Elapse(c) ==
  /\ connState[c] = "open" /\ lastPongAt[c] = "fresh"
  /\ lastPongAt' = [lastPongAt EXCEPT ![c] = "expired"]
  /\ sent' = {}
  /\ last' = Last("elapse", c, userIdOf(c), None, None, "expired")
  /\ UNCHANGED <<connState, roomIdOf, chatRoomsOf, users, rooms, roomMessagesByRoom,
                 roomChats, activeCalls, dbRooms, tasks, msgLeft, offered, announced, lookupFailed, dbMessages>>

timedOut_Never(lp, c) == FALSE

\* index.ts 67-68: now - (ws.data.lastPongAt ?? 0) > PRESENCE_TTL_MS
timedOut(lp, c) == lp[c] = "expired"

\* the close frame ws.close(code, reason) sends
closeFrame(c, code) ==
  IF connState[c] = "open" THEN {[Msg("close", None, None, None, code, {}) EXCEPT !.conn = c]}
  ELSE {}

\* index.ts 63-78, one run of the setInterval callback over the registry
Sweep ==
  LET registered == UNION {users[u] : u \in DOMAIN users}
      late == {c \in registered : timedOut(lastPongAt, c)}
  IN /\ connState' = [c \in Conns |->
                        IF c \in late /\ connState[c] = "open" THEN "closing"
                        ELSE connState[c]]
     /\ sent' = UNION {closeFrame(c, "4001") : c \in late}
                 \cup UNION {sendJson(c, Msg("presence-check", None, None, None, None, {})) :
                                c \in registered \ late}
     /\ last' = Last("sweep", None, None, None, None, "swept")
     /\ UNCHANGED <<roomIdOf, chatRoomsOf, users, rooms, roomMessagesByRoom, roomChats,
                    activeCalls, dbRooms, tasks, msgLeft, offered, announced, lastPongAt, lookupFailed, dbMessages>>

\* websocket.close run for a socket the sweep has closed
TimeoutClose(c) ==
  /\ connState[c] = "closing"
  /\ connState' = [connState EXCEPT ![c] = "closed"]
  /\ UNCHANGED lastPongAt
  /\ CloseHandler("timeout-close", c)

\* ------------------------------------------------------------------- Next
\* a1 and a2 are two sockets of the same user and interchangeable: a2 is
\* the one that opens second
OpensInOrder(c) == c = "a2" => connState["a1"] # "new"

\* the handlers every specification runs: open, close, the presence updates,
\* and the room lookup of a guest's open
Lifecycle(CS) ==
  \/ \E c \in CS, bypass \in BOOLEAN : OpensInOrder(c) /\ Open(c, bypass)
  \/ \E t \in tasks : OpenPresence(t)
  \/ \E t \in tasks : StatusDone(t)
  \/ \E t \in tasks : JoinLookup(t)
  \/ \E c \in CS : Close(c)
  \/ \E t \in tasks : CloseOffline(t)

RoomResumes ==
  \/ \E t \in tasks : LeaveOne(t)
  \/ \E t \in tasks : LeaveTwo(t)
  \/ \E t \in tasks : JoinCreate(t)
  \/ \E t \in tasks : JoinActivate(t)
  \/ \E t \in tasks : JoinJoined(t)
  \/ \E t \in tasks : JoinHistory(t)
  \/ \E t \in tasks : CloseRooms1(t)
  \/ \E t \in tasks : CloseRooms2(t)

\* SpecCalls: the direct-signaling messages, from every socket to every target
CallConns == {"a1", "a2", "b1", "g1"}
InitCalls == InitWith({DbEmpty}, MaxSignals)
\* every call message to every target; the relay-only kinds, a missing `to`
\* and a guest sender (dropped whatever it names) with fewer targets
SignalInputs ==
  {i \in [conn : CallConns, type : SignalTypes, to : UserIds \cup {None}] :
     /\ isGuestConn(i.conn) => i.to = "A"
     /\ i.type \in {"ice-candidate", "screen-share"} => i.to \in {"A", "B"}
     /\ i.to = None => i.type = "offer"}
NextCalls ==
  \/ Lifecycle(CallConns)
  \/ \E i \in SignalInputs : Signal(i.conn, i.type, i.to)
SpecCalls == InitCalls /\ [][NextCalls]_vars

\* one join-room message's options
JoinInput(create, hasName, priv, pw) ==
  [create |-> create, hasName |-> hasName, priv |-> priv, pw |-> pw]

\* SpecRooms: join-room and leave-room from two users, on rooms that are
\* created by the join or were persisted with a participant limit
RoomConns == {"a1", "b1"}
RoomInputs ==
  {JoinInput(TRUE, TRUE, FALSE, ""), JoinInput(TRUE, FALSE, FALSE, ""),
   JoinInput(FALSE, FALSE, FALSE, ""), JoinInput(FALSE, FALSE, FALSE, "pw"),
   JoinInput(FALSE, FALSE, FALSE, "bad")}
InitRooms == InitWith({DbEmpty, DbLimited}, MaxRoomMsgs)
NextRooms ==
  \/ Lifecycle(RoomConns)
  \/ RoomResumes
  \/ \E t \in tasks : JoinVerify(t)
  \/ \E c \in RoomConns, r \in RoomIds, i \in RoomInputs : JoinRoom(c, r, i)
  \/ \E c \in RoomConns : LeaveRoom(c)
SpecRooms == InitRooms /\ [][NextRooms]_vars

\* SpecMix: calls and rooms together, two users and one room
MixConns == {"a1", "b1"}
MixInputs == {JoinInput(TRUE, TRUE, FALSE, ""), JoinInput(FALSE, FALSE, FALSE, "")}
InitMix == InitWith({DbEmpty}, MaxMixMsgs)
NextMix ==
  \/ Lifecycle(MixConns)
  \/ RoomResumes
  \/ \E c \in MixConns, type \in {"offer", "answer", "hangup"}, to \in AuthUsers :
        Signal(c, type, to)
  \/ \E c \in MixConns, i \in MixInputs : JoinRoom(c, "r1", i)
  \/ \E c \in MixConns : LeaveRoom(c)
SpecMix == InitMix /\ [][NextMix]_vars

\* SpecReclose: SpecCalls, and the close handler may run twice on a socket
NextReclose ==
  \/ NextCalls
  \/ \E c \in CallConns : Reclose(c)
SpecReclose == InitCalls /\ [][NextReclose]_vars

\* SpecChat: the room chat of two users over persisted rooms r1 (private,
\* owned by A) and r2 (public), or over none
ChatConns == {"a1", "b1"}
ChatBodies == {Body(1, 0), Body(1, ROOM_MESSAGE_MAX_LENGTH), Body(0, ROOM_MESSAGE_MAX_LENGTH + 1)}
InitChat == InitWith({DbEmpty, DbLimited}, MaxChatMsgs)
NextChat ==
  \/ \E c \in ChatConns : Open(c, FALSE)
  \/ \E t \in tasks : OpenPresence(t)
  \/ \E c \in ChatConns : Close(c)
  \/ \E t \in tasks : CloseOffline(t)
  \/ \E c \in ChatConns, r \in RoomIds \cup {None}, b \in ChatBodies : SendRoomMessage(c, r, b)
  \/ \E c \in ChatConns, r \in RoomIds \cup {None} : JoinRoomChat(c, r)
  \/ \E c \in ChatConns, r \in RoomIds \cup {None} : LeaveRoomChat(c, r)
  \/ \E t \in tasks : ChatAccess(t)
  \/ \E t \in tasks : ChatStore(t)
  \/ \E t \in tasks : ChatHistory(t)
SpecChat == InitChat /\ [][NextChat]_vars

\* SpecRelay: two users and a guest around room r1: joins, room-scoped
\* signaling, typing and start-call, and the direct signaling of the guest
\* SpecBuffer: room-messages to the public room r2 while its fallback cache
\* already holds the messages of earlier failed stores, the k-th of them with
\* a body of k characters
BufferConns == {"a1", "b1"}
BufferBodies == {Body(0, ROOM_MESSAGE_LIMIT + 1), Body(1, ROOM_MESSAGE_LIMIT + 2)}
BufferFills == {0, ROOM_MESSAGE_LIMIT - 1, ROOM_MESSAGE_LIMIT}
filledCache(n) ==
  IF n = 0 THEN EmptyMap
  ELSE MapSet(EmptyMap, "r2", [k \in 1..n |-> RoomMessage("r2", "A", Body(0, k))])
InitBuffer == InitWithCache({DbLimited}, MaxBufferMsgs, {filledCache(n) : n \in BufferFills})
NextBuffer ==
  \/ \E c \in BufferConns : Open(c, FALSE)
  \/ \E t \in tasks : OpenPresence(t)
  \/ \E c \in BufferConns, b \in BufferBodies : SendRoomMessage(c, "r2", b)
  \/ \E t \in tasks : ChatAccess(t)
  \/ \E t \in tasks : ChatStore(t)
SpecBuffer == InitBuffer /\ [][NextBuffer]_vars

\* SpecEvict: the ways a room loses its last member (leave-room, close, the
\* HTTP removal) while room-messages to it may fall back to the cache
EvictConns == {"a1", "b1"}
EvictInputs == {JoinInput(FALSE, FALSE, FALSE, "")}
EvictBodies == {Body(0, 1)}
InitEvict == InitWith({DbLimited}, MaxEvictMsgs)
NextEvict ==
  \/ \E c \in EvictConns : Open(c, FALSE)
  \/ \E t \in tasks : OpenPresence(t)
  \/ \E t \in tasks : StatusDone(t)
  \/ \E c \in EvictConns : Close(c)
  \/ \E t \in tasks : CloseRooms1(t)
  \/ \E t \in tasks : CloseRooms2(t)
  \/ \E t \in tasks : CloseOffline(t)
  \/ \E c \in EvictConns, i \in EvictInputs : JoinRoom(c, "r2", i)
  \/ \E t \in tasks : JoinLookup(t)
  \/ \E t \in tasks : JoinJoined(t)
  \/ \E t \in tasks : JoinHistory(t)
  \/ \E c \in EvictConns : LeaveRoom(c)
  \/ \E t \in tasks : LeaveOne(t)
  \/ \E t \in tasks : LeaveTwo(t)
  \/ \E c \in EvictConns, b \in EvictBodies : SendRoomMessage(c, "r2", b)
  \/ \E t \in tasks : ChatAccess(t)
  \/ \E t \in tasks : ChatStore(t)
  \/ \E u \in AuthUsers : HttpRemoveMember("r2", u)
  \/ \E u \in AuthUsers : HttpLeaveMember("r2", u)
SpecEvict == InitEvict /\ [][NextEvict]_vars

\* SpecInput: frames that no branch handles, from sockets that may be in a
\* call and subscribed to a room's chat
InputConns == {"a1", "b1"}
InitInput == InitWith({DbLimited}, MaxInputMsgs)
NextInput ==
  \/ \E c \in InputConns : Open(c, FALSE)
  \/ \E t \in tasks : OpenPresence(t)
  \/ \E t \in tasks : StatusDone(t)
  \/ \E c \in InputConns : Close(c)
  \/ \E t \in tasks : CloseOffline(t)
  \/ \E c \in InputConns, to \in {"A", "B"} : Signal(c, "answer", to)
  \/ \E c \in InputConns : JoinRoomChat(c, "r2")
  \/ \E t \in tasks : ChatAccess(t)
  \/ \E t \in tasks : ChatHistory(t)
  \/ \E c \in InputConns, f \in OtherFrames : OtherMessage(c, f)
SpecInput == InitInput /\ [][NextInput]_vars

\* SpecSweep: the liveness sweep over two sockets that may be in a call
SweepConns == {"a1", "b1"}
InitSweep == InitWith({DbEmpty}, MaxSweepMsgs)
SweepResumes ==
  \/ \E t \in tasks : OpenPresence(t)
  \/ \E t \in tasks : StatusDone(t)
  \/ \E t \in tasks : CloseOffline(t)
NextSweep ==
  \/ \E c \in SweepConns : Open(c, FALSE)
  \/ SweepResumes
  \/ \E c \in SweepConns : Close(c)
  \/ \E c \in SweepConns : PresencePong(c)
  \/ \E c \in SweepConns, to \in {"A", "B"} : Signal(c, "answer", to)
  \/ \E c \in SweepConns : Elapse(c)
  \/ Sweep
  \/ \E c \in SweepConns : TimeoutClose(c)
SpecSweep == InitSweep /\ [][NextSweep]_vars

\* the timer fires, the clock advances, pending I/O completes and the close
\* handler of a closed socket runs
SweepFairness ==
  /\ WF_vars(Sweep)
  /\ WF_vars(SweepResumes)
  /\ \A c \in SweepConns : WF_vars(Elapse(c)) /\ WF_vars(TimeoutClose(c))
SpecSweepLive == SpecSweep /\ SweepFairness

\* SpecSub: chat subscriptions next to room membership; no socket closes
SubConns == {"a1", "b1"}
SubInputs == {JoinInput(TRUE, TRUE, FALSE, "")}
InitSub == InitWith({DbEmpty, DbLimited}, MaxSubMsgs)
NextSub ==
  \/ \E c \in SubConns : Open(c, FALSE)
  \/ \E t \in tasks : OpenPresence(t)
  \/ \E t \in tasks : StatusDone(t)
  \/ \E c \in SubConns, i \in SubInputs : JoinRoom(c, "r2", i)
  \/ \E c \in SubConns : LeaveRoom(c)
  \/ \E t \in tasks : JoinLookup(t)
  \/ \E t \in tasks : JoinCreate(t)
  \/ \E t \in tasks : JoinActivate(t)
  \/ \E t \in tasks : JoinJoined(t)
  \/ \E t \in tasks : JoinHistory(t)
  \/ \E t \in tasks : LeaveOne(t)
  \/ \E t \in tasks : LeaveTwo(t)
  \/ \E c \in SubConns, r \in RoomIds : JoinRoomChat(c, r)
  \/ \E c \in SubConns, r \in RoomIds : LeaveRoomChat(c, r)
  \/ \E t \in tasks : ChatAccess(t)
  \/ \E t \in tasks : ChatHistory(t)
SpecSub == InitSub /\ [][NextSub]_vars

RelayConns == {"a1", "b1", "g1"}
RelayInputs == {JoinInput(TRUE, TRUE, FALSE, ""), JoinInput(FALSE, FALSE, FALSE, "")}
InitRelay == InitWith({DbEmpty}, MaxRelayMsgs)
RoomSignalInputs ==
  {i \in [type : RoomSignalTypes, to : UserIds \cup {None}, room : {"r1", None}] :
     i.type # "room-offer" => (i.to = "A" /\ i.room = "r1")}
NextRelay ==
  \/ Lifecycle(RelayConns)
  \/ RoomResumes
  \/ \E c \in {"a1", "g1"}, i \in RelayInputs : JoinRoom(c, "r1", i)
  \/ \E c \in {"a1", "g1"} : LeaveRoom(c)
  \/ \E c \in RelayConns, i \in RoomSignalInputs : RoomSignal(c, i.type, i.to, i.room)
  \/ \E c \in RelayConns, type \in {"typing", "start-call"}, to \in {"A", None} :
        Relay(c, type, to)
  \/ \E type \in SignalTypes : Signal("g1", type, "A")
SpecRelay == InitRelay /\ [][NextRelay]_vars

\* ============================================================= properties
openConns(u) == {c \in Conns : userIdOf(c) = u /\ connState[c] = "open"}
inSomeRoom(u) == \E r \in DOMAIN rooms : u \in rooms[r]
hasCall(u) == u \in DOMAIN activeCalls

\* C1: active-call symmetry: in every reachable state, for all users a and
\* b, activeCalls[a] = b if and only if activeCalls[b] = a.
C1_ActiveCallSymmetry ==
  \A a \in UserIds, b \in UserIds :
    (hasCall(a) /\ activeCalls[a] = b) <=> (hasCall(b) /\ activeCalls[b] = a)

\* C2: resolvePresenceStatus(u) is "in-call" when u has an active-call entry
\* or is a member of a live room, otherwise "online" when u has a registered
\* connection, otherwise "offline"; it is "online" exactly when u has a
\* connection, no active-call entry and no room.
C2_PresenceFunction ==
  \A u \in UserIds :
    LET s == resolvePresenceStatus(users, rooms, activeCalls, u)
        busy == hasCall(u) \/ inSomeRoom(u)
        connected == u \in DOMAIN users /\ users[u] # {}
    IN /\ busy => s = "in-call"
       /\ (~busy /\ connected) => s = "online"
       /\ (~busy /\ ~connected) => s = "offline"
       /\ s = "online" <=> (connected /\ ~hasCall(u) /\ ~inSomeRoom(u))

\* a state in which the three statuses occur, "in-call" for a connected user
\* in a room and for a connected user in a call
C2_Witness ==
  \E u \in UserIds, v \in UserIds, w \in UserIds, x \in UserIds :
    /\ openConns(u) # {} /\ inSomeRoom(u) /\ ~hasCall(u)
    /\ openConns(v) # {} /\ hasCall(v) /\ ~inSomeRoom(v)
    /\ openConns(w) = {} /\ ~hasCall(w) /\ ~inSomeRoom(w)
    /\ resolvePresenceStatus(users, rooms, activeCalls, w) = "offline"
    /\ hasCall(x) /\ openConns(x) = {}
    /\ resolvePresenceStatus(users, rooms, activeCalls, x) = "in-call"

\* C3: a join that was checked against a participant limit N > 0 never leaves
\* the room with more than N live members.
C3_CapacityEnforced ==
  (~lookupFailed /\ last.note = "inserted" /\ last.cap > 0) =>
    Cardinality(rooms[last.room]) <= last.cap

\* C4: a user is a key of the users table exactly when it has an open
\* connection whose open handler has run and whose close handler has not;
\* the table maps each key to exactly those connections, never to the empty set.
C4_RegistryInvariant ==
  \A u \in UserIds :
    /\ u \in DOMAIN users <=> openConns(u) # {}
    /\ u \in DOMAIN users => (users[u] = openConns(u) /\ users[u] # {})

\* one of two connections of a user has closed and the other keeps the key;
C4_Witness ==
  /\ connState["a1"] = "closed" /\ connState["a2"] = "open"
  /\ connState["b1"] = "closed"
  /\ DOMAIN users = {"A"}

\* C5: the live rooms table never maps a room to the empty set; a step that
\* removes the last member of a room removes the room's entry, and a step
\* that adds an entry for a room adds it with exactly one member.
C5_RoomEmptiness ==
  /\ [](\A r \in DOMAIN rooms : rooms[r] # {})
  /\ [][\A r \in RoomIds :
          /\ (r \in DOMAIN rooms /\ r \in DOMAIN rooms' /\ rooms[r] \ rooms'[r] # {})
               => rooms'[r] # {}
          /\ (r \in DOMAIN rooms /\ \E u \in rooms[r] :
                 rooms[r] = {u} /\ (r \in DOMAIN rooms' => u \notin rooms'[r]))
               => r \notin DOMAIN rooms'
          /\ (r \notin DOMAIN rooms /\ r \in DOMAIN rooms')
               => Cardinality(rooms'[r]) = 1]_vars

\* B is inserted as the only member of a room that A had created and joined:
\* A has left it since, and the join recreated the entry
C5_Witness ==
  /\ last.note = "inserted" /\ last.user = "B"
  /\ dbRooms[last.room].exists /\ dbRooms[last.room].created_by = "A"
  /\ dbRooms[last.room].max_participants = 0
  /\ rooms[last.room] = {"B"}
  /\ connState["a1"] = "closed"

\* C6: a non-guest offer is relayed to the callee, stamped with the sender,
\* exactly when neither party has an active-call entry or is in a live room;
\* otherwise only the sender's connections receive hangup{from: callee,
\* reason: "rejected"}; either way the step leaves the users, rooms and
\* active-call tables as they were.
C6_OfferGating ==
  /\ [][last'.op = "offer" => UNCHANGED <<users, rooms, roomChats, activeCalls>>]_vars
  /\ []((last.op = "offer" /\ last.note # "dropped") =>
         LET A == last.user
             B == last.peer
             free == ~hasCall(A) /\ ~hasCall(B) /\ ~inSomeRoom(A) /\ ~inSomeRoom(B)
         IN /\ last.note = "relayed" <=> free
            /\ free =>
                 /\ \A c \in openConns(B) : \E m \in sent :
                       m.conn = c /\ m.type = "offer" /\ m.from = A
                 /\ \A m \in sent : m.type = "offer" /\ m.from = A /\ m.conn \in openConns(B)
            /\ ~free =>
                 /\ \A c \in openConns(A) : \E m \in sent :
                       m.conn = c /\ m.type = "hangup" /\ m.from = B /\ m.tag = "rejected"
                 /\ \A m \in sent : /\ m.type = "hangup" /\ m.from = B /\ m.tag = "rejected"
                                      /\ m.conn \in openConns(A))

\* A's offer to B is rejected while B is in a call with C, which stays
C6_Witness ==
  /\ last.op = "offer" /\ last.note = "rejected"
  /\ last.user = "A" /\ last.peer = "B"
  /\ hasCall("B") /\ activeCalls["B"] = "C" /\ hasCall("C") /\ activeCalls["C"] = "B"
  /\ ~hasCall("A") /\ ~inSomeRoom("A")
  /\ sent # {}

\* C7: when the close of A's last connection finds A's call with B, every
\* connection of B receives hangup{from: A, reason: "ended"}, neither A nor B
\* keeps an entry, and a user-status update for B is under way that carries
\* B's presence recomputed from the tables; every user-status update that
\* completes is broadcast to every registered connection.
C7_DisconnectInCall ==
  /\ (last.op \in {"close", "close-rooms"} /\ last.note = "clean" /\ last.peer # None) =>
       LET A == last.user
           B == last.peer
           expected == IF hasCall(B) \/ inSomeRoom(B) THEN "in-call"
                       ELSE IF openConns(B) # {} THEN "online" ELSE "offline"
       IN /\ \A c \in openConns(B) : \E m \in sent :
                m.conn = c /\ m.type = "hangup" /\ m.from = A /\ m.tag = "ended"
          /\ ~hasCall(A) /\ ~hasCall(B)
          /\ \E t \in tasks : t.kind = "status" /\ t.user = B /\ t.status = expected
  /\ last.op = "status" =>
       \A u \in DOMAIN users : \A c \in users[u] : \E m \in sent :
         m.conn = c /\ m.type = "user-status" /\ m.userId = last.user /\ m.tag = last.note

\* A's last connection has closed during its call with B, who is connected
\* and in no room: B has the hangup and B's "online" update is under way
C7_Witness ==
  /\ last.op = "close" /\ last.note = "clean"
  /\ last.user = "A" /\ last.peer = "B"
  /\ openConns("B") # {} /\ ~inSomeRoom("B")
  /\ \E m \in sent : m.type = "hangup" /\ m.from = "A" /\ m.tag = "ended"
  /\ \E t \in tasks : t.kind = "status" /\ t.user = "B" /\ t.status = "online"

\* C8: when the close handler of a user's last connection has completed, the
\* active-call table has no entry whose key or value is that user.
C8_NoEntryOutlivesParty ==
  (\/ last.op = "close-offline"
   \/ (last.op \in {"close", "close-rooms"} /\ last.note = "clean" /\ isGuestId(last.user)))
  => /\ ~hasCall(last.user)
     /\ \A k \in DOMAIN activeCalls : activeCalls[k] # last.user

\* C9: the close handler run again for a socket whose close has already
\* completed leaves the users, rooms, chat-subscription and active-call
\* tables unchanged, and sends no user-disconnected for a user who still has
\* a connection.
C9_RecloseIdempotent ==
  [][(last'.op = "reclose" /\ \A t \in tasks : t.conn # last'.conn) =>
       /\ UNCHANGED <<users, rooms, roomChats, chatRoomsOf, activeCalls>>
       /\ openConns(last'.user) # {} => (tasks' = tasks /\ sent' = {})]_vars

\* the room lookup of t's join-room resumes in this step
lookupStepOf(t) ==
  /\ t.kind = "join-room" /\ t.pc = "lookup"
  /\ t \notin tasks' /\ last'.op = "lookup" /\ last'.conn = t.conn
  /\ ~dbRooms[t.room].exists /\ ~Has(rooms, t.room)

joinDelivered ==
  /\ (last.op = "open-presence") =>
       (/\ \A u \in DOMAIN users \ {last.user} : \A c \in users[u] : \E m \in sent :
             m.conn = c /\ m.type = "user-connected" /\ m.userId = last.user
        /\ \A m \in sent : (m.type = "user-connected") => (userIdOf(m.conn) # last.user))
  /\ (last.op = "create" /\ last.note = "inserted") =>
       (last.user \in rooms[last.room] /\ dbRooms[last.room].created_by = last.user)
  /\ (last.op = "joined" /\ last.note = "room-joined" /\ connState[last.conn] = "open") =>
       (/\ \E m \in sent : /\ m.conn = last.conn /\ m.type = "room-joined"
                             /\ m.roomId = last.room /\ m.users = rooms[last.room]
        /\ \A m \in sent : m.conn = last.conn /\ m.type = "room-joined")
  /\ (last.op = "history" /\ Has(rooms, last.room)) =>
       (\A v \in rooms[last.room] \ {last.user} : \A c \in openConns(v) : \E m \in sent :
          /\ m.conn = c /\ m.type = "room-user-joined"
          /\ m.roomId = last.room /\ m.userId = last.user)

accessStepOf(t) ==
  /\ t \in tasks /\ t.pc = "access" /\ t \notin tasks'
  /\ last'.op = "access" /\ last'.conn = t.conn /\ last'.room = t.room

\* C11: the handling of a room-message whose trimmed body is longer than
\* ROOM_MESSAGE_MAX_LENGTH never writes the message store or the fallback
\* cache and delivers no room-message: the segment after the access check
\* ends the handler and sends only an error, to the sender's socket.
C11_OverlongMessage ==
  [][/\ last'.op = "room-message" =>
          (sent' = {} /\ UNCHANGED <<dbMessages, roomMessagesByRoom>>)
     /\ \A t \in tasks :
          (accessStepOf(t) /\ t.kind = "room-message"
             /\ t.body.len > ROOM_MESSAGE_MAX_LENGTH)
          => /\ UNCHANGED <<dbMessages, roomMessagesByRoom>>
             /\ tasks' = tasks \ {t}
             /\ \A m \in sent' : m.type = "error" /\ m.conn = t.conn
             /\ connState[t.conn] = "open" => sent' # {}]_vars

\* the over-long message of A is refused while B subscribes to the room's chat
C11_Witness ==
  /\ last.op = "access" /\ last.note = "Message too long" /\ last.user = "A"
  /\ Has(roomChats, last.room) /\ "B" \in roomChats[last.room]
  /\ openConns("B") # {}
  /\ \E m \in sent : m.conn = "a1" /\ m.type = "error" /\ m.tag = "Message too long"
  /\ dbMessages = <<>> /\ roomMessagesByRoom = EmptyMap

\* the presence of u over the tables the step leaves
presenceAfter(u) ==
  IF u \in DOMAIN activeCalls' \/ (\E r \in DOMAIN rooms' : u \in rooms'[r]) THEN "in-call"
  ELSE IF u \in DOMAIN users' /\ users'[u] # {} THEN "online"
  ELSE "offline"

\* C12: a hangup of a non-guest A with a non-empty `to` leaves no entry for A
\* and none for P, A's table peer if A had an entry and `to` otherwise; it
\* starts a presence update for A and for P, each with the status recomputed
\* from the tables it leaves, and relays the hangup to the sockets of `to`.
C12_HangupClearsBoth ==
  [][(last'.op = "hangup" /\ last'.note # "dropped") =>
       LET A == last'.user
           to == last'.peer
           P == IF A \in DOMAIN activeCalls THEN activeCalls[A] ELSE to
       IN /\ A \notin DOMAIN activeCalls' /\ P \notin DOMAIN activeCalls'
          /\ \A k \in DOMAIN activeCalls \ {A, P} :
                k \in DOMAIN activeCalls' /\ activeCalls'[k] = activeCalls[k]
          /\ \E t \in tasks' : t.kind = "status" /\ t.user = A /\ t.status = presenceAfter(A)
          /\ \E t \in tasks' : t.kind = "status" /\ t.user = P /\ t.status = presenceAfter(P)
          /\ \A c \in openConns(to) : \E m \in sent' :
                m.conn = c /\ m.type = "hangup" /\ m.from = A]_vars

\* A, in a call with B, has sent hangup{to: C}: the entries of A and of B
\* are gone and B's presence update is under way
C12_Witness ==
  /\ last.op = "hangup" /\ last.note = "relayed"
  /\ last.user = "A" /\ last.peer = "C"
  /\ activeCalls = EmptyMap
  /\ \E t \in tasks : t.kind = "status" /\ t.user = "B" /\ t.status # "in-call"
  /\ \E t \in tasks : t.kind = "status" /\ t.user = "A" /\ t.status = "online"

\* C13: the roomId of a guest's socket is unset or the room of its
\* credential; a join-room message on a guest's socket changes neither the
\* room table nor any socket's roomId and starts nothing; and a step that adds
\* a guest to a room adds it to the room of its credential, which at that
\* moment has a member that is not a guest.
C13_GuestJoinRestriction ==
  [][/\ \A c \in Conns : isGuestConn(c) => roomIdOf'[c] \in {None, guestRoomId}
     /\ (last'.op = "join-room" /\ isGuestConn(last'.conn))
          => (UNCHANGED <<rooms, roomIdOf, tasks, dbRooms>> /\ sent' = {})
     /\ \A r \in RoomIds : \A u \in UserIds :
          (isGuestId(u) /\ ~(Has(rooms, r) /\ u \in rooms[r])
                        /\ Has(rooms', r) /\ u \in rooms'[r])
          => /\ r = guestRoomId
             /\ Has(rooms, r)
             /\ \E id \in rooms[r] : id \in AuthUsers]_vars

\* the guest's open has put it into the room of its credential, where A is
C13_Witness ==
  /\ last.op = "lookup" /\ last.conn = "g1" /\ last.note = "inserted"
  /\ Has(rooms, guestRoomId) /\ rooms[guestRoomId] = {"A", GuestId}
  /\ roomIdOf["g1"] = guestRoomId

\* C14: a room-offer, room-answer or room-ice from S naming target T and room
\* R reaches every socket of T, as the same message type with from = S and
\* the room R, and reaches nobody else, when S and T are both in the live
\* member set of R at that moment; otherwise nothing is sent.  In both cases
\* no table changes.
C14_RoomSignalScope ==
  [][last'.op \in RoomSignalTypes =>
       LET S == last'.user
           T == last'.peer
           R == last'.room
           members == /\ T # None /\ R # None /\ R \in DOMAIN rooms
                      /\ S \in rooms[R] /\ T \in rooms[R]
       IN /\ UNCHANGED <<users, rooms, roomIdOf, activeCalls, roomChats, chatRoomsOf,
                         dbRooms, dbMessages, roomMessagesByRoom, tasks>>
          /\ members =>
               /\ \A c \in openConns(T) : \E m \in sent' : m.conn = c
               /\ \A m \in sent' : /\ m.conn \in openConns(T) /\ m.type = last'.op
                                   /\ m.from = S /\ m.roomId = R
          /\ ~members => sent' = {}]_vars

\* A, in r1 together with the guest, has sent the guest a room-offer
C14_Witness ==
  /\ last.op = "room-offer" /\ last.user = "A" /\ last.peer = GuestId
  /\ last.room = "r1" /\ Has(rooms, "r1") /\ rooms["r1"] = {"A", GuestId}
  /\ \E m \in sent : m.conn = "g1" /\ m.type = "room-offer" /\ m.from = "A"

\* C15: an offer, answer, ice-candidate, hangup, screen-share, typing or
\* start-call message handled on a guest's socket sends nothing to anyone,
\* leaves the active-call table as it was and starts no presence update.
C15_GuestExcluded ==
  [][(last'.op \in SignalTypes \cup {"typing", "start-call"}
        /\ last'.conn \in Conns /\ userIdOf(last'.conn) = GuestId)
       => (sent' = {} /\ UNCHANGED <<activeCalls, tasks, users, rooms>>)]_vars

\* the guest has sent start-call naming A, who is connected and received nothing
C15_Witness ==
  /\ last.op = "start-call" /\ last.conn = "g1" /\ last.peer = "A"
  /\ openConns("A") # {} /\ sent = {} /\ activeCalls = EmptyMap

\* the step that resumes the join t from its lookup, its activation or its
\* password verification
joinStepOf(t) ==
  /\ t \in tasks /\ t.kind \in JoinKinds /\ t \notin tasks'
  /\ last'.op \in {"lookup", "activate", "verify"}
  /\ last'.conn = t.conn /\ last'.room = t.room

\* C16: a join to a room whose persisted record is private, once it is
\* decided by insertion or by a password error, has added the user to the
\* live member set if and only if (a) the supplied password verifies against
\* the stored hash, or (b) the socket is a guest holding a bypass grant, or
\* (c) the user has a row in the persisted membership store; a refused join
\* leaves the room table and the socket's roomId as they were.
C16_PrivateAdmission ==
  [][\A t \in tasks :
       (/\ joinStepOf(t)
        /\ dbRooms[t.room].exists /\ dbRooms[t.room].is_private
        /\ last'.note \in {"inserted", "Room password required", "Invalid room password"})
       => LET a == dbRooms[t.room].password_hash = hashOf(trim(t.pw))
              b == isGuestConn(t.conn) /\ t.bypass
              c == getRoomMemberRole(dbRooms, t.room, t.user)
              added == /\ last'.note = "inserted"
                       /\ Has(rooms', t.room) /\ t.user \in rooms'[t.room]
          IN /\ added <=> (a \/ b \/ c)
             /\ ~added => (rooms' = rooms /\ roomIdOf' = roomIdOf)]_vars

\* the errors that refuse a join-room
JoinRejections ==
  {"Room not found", "Room name required", "Room password required",
   "Room inactive", "Room is full", "Invalid room password"}

\* C17: the step that refuses a join-room leaves the room table and the
\* sockets' roomId as they were, and when the socket was in another room as
\* the message arrived (t.old), the socket's roomId is still that room and
\* the user is still a member of it.
C17_RejectedJoinUnapplied ==
  [][\A t \in tasks :
       (joinStepOf(t) /\ t.kind = "join-room" /\ last'.note \in JoinRejections)
       => /\ rooms' = rooms /\ roomIdOf' = roomIdOf
          /\ t.old # None =>
               /\ roomIdOf'[t.conn] = t.old
               /\ Has(rooms', t.old) /\ t.user \in rooms'[t.old]]_vars

\* C18: a user with exactly one open socket is a member of at most one room.
C18_OneRoomPerSession ==
  \A u \in UserIds :
    Cardinality(openConns(u)) = 1
    => Cardinality({r \in DOMAIN rooms : u \in rooms[r]}) <= 1

\* the sockets of users other than u that are open
otherOpen(u) == {c \in Conns : connState[c] = "open" /\ userIdOf(c) # u}

\* C19: for a user U that is not a guest, an open starts the announcement of
\* U (the status update that ends in user-connected) exactly when U had no
\* other open socket, and a close starts the close-down that ends in
\* user-disconnected exactly when it leaves U with no open socket;
\* user-connected and user-disconnected are sent only by the resumption of
\* such an announcement or close-down, to every open socket of every other
\* user and to none of U's.
C19_ConnectionGated ==
  [][/\ (last'.op = "open" /\ last'.user \in AuthUsers) =>
          ((\E t \in tasks' \ tasks : t.kind = "open" /\ t.conn = last'.conn)
             <=> openConns(last'.user) = {})
     /\ (last'.op = "close" /\ last'.user \in AuthUsers) =>
          ((\E t \in tasks' \ tasks : t.kind = "close" /\ t.conn = last'.conn)
             <=> openConns(last'.user) \ {last'.conn} = {})
     /\ \A m \in sent' :
          /\ m.type = "user-connected" =>
               /\ \E t \in tasks \ tasks' : t.kind = "open" /\ t.user = m.userId
               /\ userIdOf(m.conn) # m.userId
          /\ m.type = "user-disconnected" =>
               /\ \E t \in tasks \ tasks' :
                     t.kind = "close" /\ t.pc = "offline" /\ t.user = m.userId
               /\ userIdOf(m.conn) # m.userId
     /\ \A t \in tasks \ tasks' :
          /\ t.kind = "open" =>
               \A c \in otherOpen(t.user) : \E m \in sent' :
                  m.conn = c /\ m.type = "user-connected" /\ m.userId = t.user
          /\ (t.kind = "close" /\ t.pc = "offline") =>
               \A c \in otherOpen(t.user) : \E m \in sent' :
                  m.conn = c /\ m.type = "user-disconnected" /\ m.userId = t.user]_vars

\* A has opened two sockets and closed both: the close of the last one has
\* ended in user-disconnected, delivered to B
C19_Witness ==
  /\ last.op = "close-offline" /\ last.user = "A"
  /\ connState["a1"] = "closed" /\ connState["a2"] = "closed"
  /\ \E m \in sent : m.conn = "b1" /\ m.type = "user-disconnected" /\ m.userId = "A"
  /\ \A t \in tasks : ~(t.kind = "close" /\ t.user = "A")

\* C20: every user-status message about U that a step delivers goes to every
\* open socket of every other user and to no socket of U.
C20_StatusAudience ==
  \A m \in sent :
    m.type = "user-status" =>
      /\ userIdOf(m.conn) # m.userId
      /\ \A c \in otherOpen(m.userId) : \E m2 \in sent :
            /\ m2.conn = c /\ m2.type = "user-status"
            /\ m2.userId = m.userId /\ m2.tag = m.tag

\* C21: a direct signal that is relayed to T puts one message, the signal
\* with from = the sender, on each socket T has open at that moment and on no
\* other socket; when T has none the step sends nothing, answers the sender
\* with no error and leaves nothing behind that could deliver it later (a
\* relay-only signal starts no task, and an open delivers nothing to the
\* socket it registers).
C21_SendToUser ==
  [][/\ (last'.op \in SignalTypes /\ last'.note = "relayed") =>
          /\ {m.conn : m \in sent'} = openConns(last'.peer)
          /\ \A m \in sent' : m.type = last'.op /\ m.from = last'.user
          /\ \A m1 \in sent', m2 \in sent' : m1.conn = m2.conn => m1 = m2
          /\ last'.op \in {"ice-candidate", "screen-share"} => tasks' = tasks
     /\ last'.op = "open" => sent' = {}]_vars

\* B has relayed an ice-candidate to A, who has two sockets open: each got it
C21_Witness ==
  /\ last.op = "ice-candidate" /\ last.user = "B" /\ last.peer = "A"
  /\ openConns("A") = {"a1", "a2"}
  /\ {m.conn : m \in sent} = {"a1", "a2"}

\* B has relayed an ice-candidate to A while A has no socket: nothing is sent
C21_WitnessNone ==
  /\ last.op = "ice-candidate" /\ last.user = "B" /\ last.peer = "A"
  /\ last.note = "relayed" /\ openConns("A") = {} /\ sent = {}

\* the handler segments of join-room and leave-room
RoomOps ==
  {"join-room", "leave-room", "lookup", "create", "activate", "verify",
   "joined", "history", "leave1", "leave2"}

registered == UNION {users[u] : u \in DOMAIN users}

\* what a graceful close of socket c would leave in the registry, the call
\* table and the chat subscriptions
closedAsGraceful(c) ==
  LET u == userIdOf(c)
      lastOne == registered \cap {d \in Conns : userIdOf(d) = u} \subseteq {c}
  IN /\ c \notin UNION {users'[x] : x \in DOMAIN users'}
     /\ lastOne =>
          /\ u \notin DOMAIN users'
          /\ u \notin DOMAIN activeCalls'
          /\ u \in DOMAIN activeCalls => activeCalls[u] \notin DOMAIN activeCalls'
          /\ \A r \in DOMAIN roomChats' : u \notin roomChats'[r] \/ r \notin chatRoomsOf[c]
          /\ chatRoomsOf'[c] = {}
          /\ u \in DOMAIN activeCalls =>
               \A d \in openConns(activeCalls[u]) \ {c} : \E m \in sent' :
                  m.conn = d /\ m.type = "hangup" /\ m.from = u /\ m.tag = "ended"

\* C23 (sweep): a run of the sweep closes, with code 4001, every registered
\* open socket whose last message is older than the threshold and sends it no
\* presence-check; it sends presence-check to every other registered open
\* socket and changes no table.  The close handler that then runs for such a
\* socket leaves what a graceful close leaves.
C23_SweepStep ==
  [][/\ last'.op = "sweep" =>
          /\ \A c \in Conns :
               IF c \in registered /\ connState[c] = "open" /\ lastPongAt[c] = "expired"
               THEN /\ connState'[c] = "closing"
                    /\ \E m \in sent' : m.conn = c /\ m.type = "close" /\ m.tag = "4001"
                    /\ \A m \in sent' : m.conn = c => m.type # "presence-check"
               ELSE /\ connState'[c] = connState[c]
                    /\ (c \in registered /\ connState[c] = "open")
                         => \E m \in sent' : m.conn = c /\ m.type = "presence-check"
                    /\ \A m \in sent' : m.conn = c => m.type = "presence-check"
          /\ UNCHANGED <<users, rooms, roomChats, chatRoomsOf, activeCalls, tasks>>
     /\ \A c \in Conns :
          (connState[c] = "closing" /\ connState'[c] = "closed") => closedAsGraceful(c)
     /\ \A c \in Conns :
          (connState[c] = "open" /\ connState'[c] = "closed") => closedAsGraceful(c)]_vars

C24_AnswerTransition ==
  [][/\ (last'.op = "answer" /\ last'.note # "dropped") =>
          LET A == last'.user
              B == last'.peer
          IN /\ A \in DOMAIN activeCalls' /\ activeCalls'[A] = B
             /\ B \in DOMAIN activeCalls' /\ activeCalls'[B] = A
             /\ \A k \in DOMAIN activeCalls \ {A, B} :
                   k \in DOMAIN activeCalls' /\ activeCalls'[k] = activeCalls[k]
             /\ {m.conn : m \in sent'} = openConns(B)
             /\ \A m \in sent' : m.type = "answer" /\ m.from = A
             /\ \A u \in {A, B} : \E t \in tasks' :
                   t.kind = "status" /\ t.user = u /\ t.status = "in-call"
     /\ \A t \in tasks \ tasks' :
          t.kind = "status" =>
            \A c \in Conns : connState[c] = "open" =>
              \E m \in sent' : /\ m.conn = c /\ m.type = "user-status"
                                /\ m.userId = t.user /\ m.tag = t.status]_vars

\* A has answered B: the pair is in the table and B's socket got the answer
C24_Witness ==
  /\ last.op = "answer" /\ last.user = "A" /\ last.peer = "B"
  /\ activeCalls = MapSet(MapSet(EmptyMap, "A", "B"), "B", "A")
  /\ \E m \in sent : m.conn = "b1" /\ m.type = "answer" /\ m.from = "A"
  /\ \E t \in tasks : t.kind = "status" /\ t.user = "B" /\ t.status = "in-call"

\* C25: an entry activeCalls[a] = b is created only by an answer between a
\* and b, sent by the user to whom the other had sent an offer that was
\* relayed; an answer with no such offer creates no entry.
C25_CallStateMachine ==
  [][\A a \in UserIds, b \in UserIds :
       (/\ a \in DOMAIN activeCalls' /\ activeCalls'[a] = b
        /\ ~(a \in DOMAIN activeCalls /\ activeCalls[a] = b))
       => /\ last'.op = "answer"
          /\ {a, b} = {last'.user, last'.peer}
          /\ <<last'.peer, last'.user>> \in offered]_vars

\* C26: when the last socket of A closes while the only message sent so far
\* is an offer of A to B that was relayed (no answer, no hangup), every
\* socket of B receives hangup{from: A, reason: "ended"} and a presence
\* update for B is started.
C26_DisconnectWhileRinging ==
  [][\A B \in UserIds :
       (/\ last'.op = "close" /\ last'.note = "clean"
        /\ msgLeft = MaxSignals - 1
        /\ <<last'.user, B>> \in offered
        /\ openConns(B) \ {last'.conn} # {})
       => /\ \A c \in openConns(B) \ {last'.conn} : \E m \in sent' :
                /\ m.conn = c /\ m.type = "hangup"
                /\ m.from = last'.user /\ m.tag = "ended"
          /\ \E t \in tasks' : t.kind = "status" /\ t.user = B]_vars

\* the join-room and leave-room handlers of connection c that are suspended
roomTasksOf(c) == {t \in tasks : t.conn = c /\ t.kind \in {"join-room", "leave-room"}}

C27_OrderingStep ==
  [][last'.op \in {"join-room", "leave-room"} => roomTasksOf(last'.conn) = {}]_vars

C27_LeaveAfterJoin ==
  \A c \in RoomConns :
    []((/\ last.op = "leave-room" /\ last.conn = c /\ msgLeft = 0
        /\ \E t \in tasks : t.conn = c /\ t.kind = "join-room")
       => [](roomTasksOf(c) = {}
             => /\ roomIdOf[c] = None
                /\ \A r \in DOMAIN rooms : userIdOf(c) \notin rooms[r]))

\* C27: the messages of one connection are handled one at a time: no
\* join-room or leave-room handler starts on a connection while the handler
\* of an earlier join-room or leave-room of that connection is still
\* suspended, and when a leave-room is the last message of a connection
\* whose join-room was sent before it, the connection has no current room
\* and its user is in no room once both handlers have finished.
C27_PerConnectionOrdering == C27_OrderingStep /\ C27_LeaveAfterJoin

\* the step that resumes room-message task t from storeRoomMessage
storeStepOf(t) ==
  /\ t \in tasks /\ t.pc = "store" /\ t \notin tasks'
  /\ last'.op = "store" /\ last'.conn = t.conn /\ last'.room = t.room

\* the access check of room-message task t, answered by last'.res, grants access
accessGranted(t) ==
  \/ last'.res = "missing-table"
  \/ /\ last'.res = "row" /\ dbRooms[t.room].exists
     /\ ~(dbRooms[t.room].is_private /\ dbRooms[t.room].created_by # t.user)

\* the room-message deliveries among the messages ms
roomMessagesIn(ms) == {m \in ms : m.type = "room-message"}

C28_WitnessEmpty ==
  /\ last.op = "access" /\ last.note = "empty" /\ last.user = "A"
  /\ sent = {} /\ dbMessages = <<>> /\ roomMessagesByRoom = EmptyMap

C29_BufferBound ==
  \A r \in DOMAIN roomMessagesByRoom : Len(roomMessagesByRoom[r]) <= ROOM_MESSAGE_LIMIT

C29_BufferStep ==
  [][\A t \in tasks :
       storeStepOf(t)
       => IF dbMessages' # dbMessages THEN UNCHANGED roomMessagesByRoom
          ELSE LET old == IF Has(roomMessagesByRoom, t.room)
                          THEN roomMessagesByRoom[t.room] ELSE <<>>
                   new == roomMessagesByRoom'[t.room]
                   gone == Len(old) + 1 - Len(new)
               IN /\ Has(roomMessagesByRoom', t.room)
                  /\ \A r \in DOMAIN roomMessagesByRoom \ {t.room} :
                       Has(roomMessagesByRoom', r)
                       /\ roomMessagesByRoom'[r] = roomMessagesByRoom[r]
                  /\ Len(new) = IF Len(old) < ROOM_MESSAGE_LIMIT
                                THEN Len(old) + 1 ELSE ROOM_MESSAGE_LIMIT
                  /\ new[Len(new)] = [room_id |-> t.room, sender_id |-> t.user,
                                      body |-> t.body.len]
                  /\ \A k \in 1..(Len(new) - 1) : new[k] = old[k + gone]
                  /\ ~\E m \in sent' : m.type = "error"]_vars

\* C29: a room-message whose insert into the message store fails is appended
\* to the fallback cache of its room and its handler goes on without an
\* error; the cache of a room never holds more than ROOM_MESSAGE_LIMIT
\* messages, and a failed store leaves in it the most recent of the messages
\* it held plus the new one, in the order they were stored.
C29_FallbackRingBuffer == []C29_BufferBound /\ C29_BufferStep

\* a failed store met a full cache: the oldest message is gone, the new one is last
C29_Witness ==
  /\ last.op = "store" /\ last.note = "fallback"
  /\ Has(roomMessagesByRoom, "r2")
  /\ Len(roomMessagesByRoom["r2"]) = ROOM_MESSAGE_LIMIT
  /\ roomMessagesByRoom["r2"][1].body = 2
  /\ roomMessagesByRoom["r2"][ROOM_MESSAGE_LIMIT].body > ROOM_MESSAGE_LIMIT

C30_EvictionStep ==
  [][\A r \in DOMAIN rooms : r \notin DOMAIN rooms' => r \notin DOMAIN roomMessagesByRoom']_vars

C30_NoOrphanTranscript ==
  \A r \in DOMAIN roomMessagesByRoom : r \in DOMAIN rooms

\* C30: a step that deletes a live room entry (leave-room, close, or the
\* HTTP removal of a member) leaves no fallback cache for that room, and no
\* room without a live entry has a fallback cache.
C30_ChatHistoryEviction == C30_EvictionStep /\ []C30_NoOrphanTranscript

\* C31: a frame that cannot be parsed, or whose type no branch handles,
\* changes none of the users, rooms, chat-subscription and active-call
\* tables, sends nothing, and leaves its socket open and registered.
C31_UnhandledInput ==
  [][last'.op = "message"
     => /\ UNCHANGED <<users, rooms, roomChats, activeCalls>>
        /\ sent' = {}
        /\ connState'[last'.conn] = "open"
        /\ Has(users', last'.user) /\ last'.conn \in users'[last'.user]]_vars

\* an unparseable frame arrived from A while A is in a call; A's socket is
\* still open and registered
C31_Witness ==
  /\ last.op = "message" /\ last.note = "unparseable" /\ last.conn = "a1"
  /\ Has(activeCalls, "A")
  /\ connState["a1"] = "open" /\ Has(users, "A") /\ "a1" \in users["A"]

\* the step that resumes the join-room t of a non-guest from a lookup that failed
failedLookupStepOf(t) ==
  /\ t \in tasks /\ t.kind = "join-room" /\ t.pc = "lookup" /\ t \notin tasks'
  /\ last'.op = "lookup" /\ last'.conn = t.conn /\ last'.room = t.room
  /\ last'.res = "error"
  /\ ~isGuestConn(t.conn)

\* C32: when the lookup of a non-guest's join-room fails, the step that
\* resumes the join adds the user to the live member set of the requested
\* room and sets the socket's room, whatever the create flag, the password,
\* the persisted record and the number of members, and sends no error; the
\* segment that follows the participant writes sends room-joined to the
\* socket when the socket is open and the room entry still exists.
C32_DegradedJoin ==
  [][\A t \in tasks :
       /\ failedLookupStepOf(t)
          => /\ Has(rooms', t.room) /\ t.user \in rooms'[t.room]
             /\ roomIdOf'[t.conn] = t.room
             /\ sent' = {}
             /\ \E n \in tasks' : n.conn = t.conn /\ n.room = t.room /\ n.pc = "joined"
       /\ (/\ t.kind = "join-room" /\ t.pc = "joined" /\ t \notin tasks'
           /\ last'.op = "joined" /\ last'.conn = t.conn
           /\ connState[t.conn] = "open" /\ Has(rooms, t.room))
          => \E m \in sent' : /\ m.conn = t.conn /\ m.type = "room-joined"
                              /\ m.roomId = t.room /\ m.users = rooms[t.room]]_vars

\* the lookup of a join to the private room r1, limited to MaxCap members,
\* failed: the user was added without a password next to MaxCap members
C32_Witness ==
  /\ last.op = "lookup" /\ last.res = "error" /\ last.note = "inserted"
  /\ last.room = "r1" /\ dbRooms["r1"].exists /\ dbRooms["r1"].is_private
  /\ Has(rooms, "r1") /\ last.user \in rooms["r1"]
  /\ Cardinality(rooms["r1"]) = MaxCap + 1

\* room-joined reaches the socket of a join whose lookup had failed
C32_WitnessJoined ==
  /\ last.op = "joined" /\ last.note = "room-joined" /\ lookupFailed
  /\ Has(rooms, last.room) /\ Cardinality(rooms[last.room]) = MaxCap + 1
  /\ \E m \in sent : m.conn = last.conn /\ m.type = "room-joined"

\* C33: when no handler is suspended, every member of every live room has a
\* registered socket.
C33_NoGhostMembers ==
  tasks = {}
  => \A r \in DOMAIN rooms : \A u \in rooms[r] : Has(users, u) /\ users[u] # {}

\* C34: when no handler is suspended, the user of every open socket whose
\* current room is r is a member of the live room r.
C34_ConnectionRoomConsistency ==
  tasks = {}
  => \A c \in Conns :
       (connState[c] = "open" /\ roomIdOf[c] # None)
       => Has(rooms, roomIdOf[c]) /\ userIdOf(c) \in rooms[roomIdOf[c]]

\* C35: when no handler is suspended, a user none of whose sockets is open
\* is in no room's chat-subscription set.
C35_NoGhostSubscribers ==
  tasks = {}
  => \A u \in UserIds :
       openConns(u) = {} => \A r \in DOMAIN roomChats : u \notin roomChats[r]

\* C36: no user has an active-call entry while being a member of a live room.
C36_CallRoomExclusive ==
  \A u \in UserIds :
    ~(Has(activeCalls, u) /\ \E r \in DOMAIN rooms : u \in rooms[r])

\* C37: a step in which a hangup message or a close of another user removes
\* the active-call entry of B delivers a hangup to every open socket of B.
C37_TerminationNotified ==
  [][\A B \in UserIds :
       (/\ Has(activeCalls, B) /\ ~Has(activeCalls', B)
        /\ last'.op \in {"hangup", "close", "close-rooms"}
        /\ last'.user # B)
       => \A c \in openConns(B) : \E m \in sent' : m.conn = c /\ m.type = "hangup"]_vars

\* C38: when the step that broadcasts a user-status about a non-guest user U
\* leaves no handler and no presence update pending, the status it broadcast
\* is resolvePresenceStatus(U) in the state it leaves.
C38_PresenceConvergence ==
  (tasks = {} /\ last.op \in {"status", "open-presence", "close-offline"}
     /\ ~isGuestId(last.user))
  => resolvePresenceStatus(users, rooms, activeCalls, last.user)
       = IF last.op = "close-offline" THEN "offline" ELSE last.note

\* the step in which the open handler of `u` broadcasts user-connected
connectedStep(u) ==
  tasks' # tasks /\ last'.op = "open-presence" /\ last'.user = u

\* the step in which the close handler of `u` broadcasts user-disconnected
disconnectedStep(u) ==
  tasks' # tasks /\ last'.op = "close-offline" /\ last'.user = u

\* C39: connected/disconnected alternation: for every non-guest user the
\* user-connected and user-disconnected broadcasts about that user strictly
\* alternate and start with user-connected: user-connected is broadcast only
\* when the last such broadcast about the user was not user-connected, and
\* user-disconnected only when the last one was user-connected, whatever the
\* interleaving of the suspended open and close handlers.
C39_ConnectedAlternation ==
  [][\A u \in AuthUsers :
       /\ connectedStep(u) => announced[u] # "user-connected"
       /\ disconnectedStep(u) => announced[u] = "user-connected"]_vars

\* C40: guests never occupy a room alone: in every reachable state, every
\* live room whose member set contains a guest identity also contains at
\* least one non-guest identity, also after the last non-guest member has
\* left or disconnected.
C40_GuestNeverAlone ==
  \A r \in DOMAIN rooms :
     (\E g \in rooms[r] : isGuestId(g)) => \E u \in rooms[r] : ~isGuestId(u)

====
